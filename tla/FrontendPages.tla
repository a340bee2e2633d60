--------------------------- MODULE FrontendPages ---------------------------
(***************************************************************************)
(* The pages of the first dashboard (React) in the terms of PageProtocol.  *)
(* Their effects start a load when the id in the URL changes and let the   *)
(* one before it answer; what was shown stays until then, and when a load  *)
(* fails.                                                                  *)
(***************************************************************************)
EXTENDS PageProtocol

\* A form can be saved once something was loaded; it then shows the answer, or
\* keeps what was typed.
SaveShown == [Save EXCEPT !.needs = "content"]
SaveKept == [SaveShown EXCEPT !.then = "keep"]
FormShown == Form(Follow, {SaveShown})
FormKept == Form(Follow, {SaveKept})

\* A row is removed at the click, without a question and without a flag.
RemoveAtOnce == Unlocked([Drop EXCEPT !.dialog = "none"])

-----------------------------------------------------------------------------
(* Mailboxes. *)

ToggleStatus == Unlocked(Poke)
MailboxOverviewPage == Form(Follow, {SaveShown, ToggleStatus})

MailboxAttachedNotesPage == FormKept
MailboxLimitsPage == FormShown
MailboxExpirationPage == FormShown
MailboxListingSettingsPage == FormShown
MailboxEnabledServicesPage == FormShown
MailboxInternalAccessPage == FormShown
MailboxDelegationPage == FormShown

MailboxForwardingPage == List(Follow, {Add, RemoveAtOnce})
MailboxIdentitiesPage == List(Follow, {Add, RemoveAtOnce})

MailboxPasswordPage ==
  Bare(Follow, {[Result EXCEPT !.lock = "invite"], [Result EXCEPT !.lock = "change"]})

\* A question that stays when the deletion fails, and asks for no name.
EndOrAskAgain == [End EXCEPT !.needs = "nothing", !.dialog = "stays"]
DeleteMailboxPage == Bare(Follow, {EndOrAskAgain})

MailboxRecentActivityPage == Follow
MailboxRecentLogsPage == Follow
MailboxUsageInstructionsPage == Follow

-----------------------------------------------------------------------------
(* Domains. *)

MailboxesPage == List(Follow, {[RemoveAtOnce EXCEPT !.aim = "row"]})
AllAddressesPage == [Follow EXCEPT !.rows = TRUE]
NewMailboxPage == Bare(Follow, {Result})
ImportMailboxesPage == Bare(Follow, {Result})
DefaultLimitsPage == FormShown
DefaultServicesPage == FormShown

AddressAliasesPage == List(Follow, {[RemoveAtOnce EXCEPT !.aim = "index"]})
DomainAliasesPage == List(Follow, {RemoveAtOnce})
BccCapturesPage == List(Follow, {RemoveAtOnce})
PatternRewritesPage == List(Follow, {RemoveAtOnce})
CatchallPage == FormKept
NewAliasPage == Form(Follow, {Leave})
NewBccCapturePage == Bare(Follow, {Leave})
NewDomainAliasPage == Bare(Follow, {Leave})
NewPatternRewritePage == Bare(Follow, {Leave})
ImportAliasesPage == Bare(Follow, {Result})

SpamAggressivenessPage == FormKept
SpamSenderListsPage == FormKept
SpamRecipientDenylistPage == FormKept
SpamOverviewPage == Follow

DnsCheck == [Follow EXCEPT !.again = TRUE]
DnsOverviewPage == DnsCheck
DnsRecordsPage == DnsCheck

RecentActivityPage == Follow
AttachedNotesPage == FormKept
ListingSettingsPage == FormKept

Activation == [Poke EXCEPT !.lock = "form", !.then = "reload"]
DeactivateDomainPage == Form(Follow, {Activation, [Activation EXCEPT !.dialog = "stays"]})
DeleteDomainPage == Bare(Follow, {EndOrAskAgain})
TransferOwnershipPage == Bare(Follow, {[End EXCEPT !.needs = "nothing"]})

-----------------------------------------------------------------------------
(* The account. *)

RemoveNamed == [Drop EXCEPT !.aim = "row", !.dialog = "stays"]
ChangeRole == Unlocked([Poke EXCEPT !.then = "reload"])
MyOrganizationPage == OfAccount(List(Follow, {Add, ChangeRole, RemoveAtOnce, RemoveNamed}))
AccountApiKeysPage == OfAccount(List(Follow, {Add, RemoveNamed}))

LoadMore == [Poke EXCEPT !.kind = "act", !.lock = "more"]
OrganizationActivityPage == OfAccount(Form(Follow, {LoadMore}))
BillingPlansPage == OfAccount(Form(Follow, {[Leave EXCEPT !.needs = "content"]}))
BillingOverviewPage == OfAccount(Form(Follow, {Leave}))
BillingInvoicesPage == OfAccount(Follow)
StatusPage == OfAccount(Follow)
AccountTerminatePage == OfAccount(Bare(Follow, {[Leave EXCEPT !.dialog = "plain"]}))
AcceptInvitePage == OfAccount(Form(Follow, {[Leave EXCEPT !.needs = "content"]}))
SetPasswordPage == OfAccount(Form(Follow, {[Result EXCEPT !.needs = "content"]}))
NewDomainPage == OfAccount(Bare(Follow, {Result}))

Pages ==
  {MailboxOverviewPage, MailboxAttachedNotesPage, MailboxLimitsPage, MailboxExpirationPage,
   MailboxListingSettingsPage, MailboxEnabledServicesPage, MailboxInternalAccessPage,
   MailboxDelegationPage, MailboxForwardingPage, MailboxIdentitiesPage, MailboxPasswordPage,
   DeleteMailboxPage, MailboxRecentActivityPage, MailboxRecentLogsPage,
   MailboxUsageInstructionsPage, MailboxesPage, AllAddressesPage, NewMailboxPage,
   ImportMailboxesPage, DefaultLimitsPage, DefaultServicesPage, AddressAliasesPage,
   DomainAliasesPage, BccCapturesPage, PatternRewritesPage, CatchallPage, NewAliasPage,
   NewBccCapturePage, NewDomainAliasPage, NewPatternRewritePage, ImportAliasesPage,
   SpamAggressivenessPage, SpamSenderListsPage, SpamRecipientDenylistPage, SpamOverviewPage,
   DnsOverviewPage, DnsRecordsPage, RecentActivityPage, AttachedNotesPage,
   ListingSettingsPage, DeactivateDomainPage, DeleteDomainPage, TransferOwnershipPage,
   MyOrganizationPage, AccountApiKeysPage, OrganizationActivityPage, BillingPlansPage,
   BillingOverviewPage, BillingInvoicesPage, StatusPage, AccountTerminatePage,
   AcceptInvitePage, SetPasswordPage, NewDomainPage}
=============================================================================
