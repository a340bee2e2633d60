----------------------------- MODULE BetaPages -----------------------------
(***************************************************************************)
(* The pages of the beta dashboard (Angular) in the terms of PageProtocol: *)
(* what each component loads, which buttons it disables when, and what it  *)
(* does with an answer.                                                    *)
(***************************************************************************)
EXTENDS PageProtocol

-----------------------------------------------------------------------------
(* Mailboxes: what their pages share is in MailboxContext. *)

SaveName == [Save EXCEPT !.lock = "name"]
ToggleStatus == [Poke EXCEPT !.lock = "status", !.aim = "shown"]
MailboxOverview == Form(Page, {SaveName, ToggleStatus})

MailboxNotes == Form(Page, {Save})
MailboxLimits == Form(Page, {Save})
MailboxExpiration == Form(Page, {Save})
MailboxListingSettings == Form(Page, {Save})
MailboxServices == Form(Page, {Save})
MailboxInternalAccess == Form(Page, {Save})
MailboxDelegation == Form(Page, {Save})

\* A row is removed at the click; only that row's button waits, and one other
\* click takes its flag.
RemoveAtOnce == Unlocked([Drop EXCEPT !.dialog = "none"])
AwaitedList == [List(Page, {Add, RemoveAtOnce}) EXCEPT !.reload = "await"]
MailboxForwarding == AwaitedList
MailboxIdentities == AwaitedList

MailboxPassword == Bare(Page, {[Result EXCEPT !.lock = "invite"], [Result EXCEPT !.lock = "change"]})
MailboxRepair == Bare(Page, {[Result EXCEPT !.lock = "repair"]})
DeleteMailbox == Form(Page, {End})

MailboxActivity == Page
MailboxLogs == Page
MailboxUsage == Page

-----------------------------------------------------------------------------
(* Domains: mailboxes and addresses. *)

RepairAll == [Poke EXCEPT !.lock = "repair", !.needs = "nothing", !.then = "reload"]
MailboxesPage ==
  [List(Page, {[Drop EXCEPT !.aim = "row"], RepairAll}) EXCEPT !.reload = "blank"]

DefaultLimits == Form(Page, {Save})
DefaultServices == Form(Page, {Save})
ImportMailboxes == Bare(Page, {Result})
NewMailbox == Form(Page, {Result})

AddressAliases == List(Page, {[Drop EXCEPT !.aim = "index"]})
DomainAliases == List(Page, {Drop})
DropThenRead == [Drop EXCEPT !.then = "always"]
BccCaptures == List(Page, {DropThenRead})
PatternRewrites == List(Page, {DropThenRead})

\* Its button that clears the address waits for the flag, not for an edit.
Clear == [Save EXCEPT !.needs = "content"]
Catchall == Form(Page, {Save, Clear})

NewAlias == Form(Page, {Leave})
NewBccCapture == Form(Page, {Leave})
NewDomainAlias == Bare(Page, {Leave})
NewPatternRewrite == Form(Page, {Leave})
ImportAliases == Bare(Page, {Result})

-----------------------------------------------------------------------------
(* Domains: spam filtering, DNS, administration. *)

SpamForm == Form(Page, {Save})
SpamSubject == SpamForm
SpamSenderLists == SpamForm
SpamRecipientDenylist == SpamForm
SpamOverview == Page

DnsCheck == [Page EXCEPT !.again = TRUE]
DnsOverview == DnsCheck
DnsRecords == DnsCheck
DnsRecord == DnsCheck

DomainDetail == Page
DomainActivity == Page
DomainNotes == Form(Page, {Save})
ListingSettings == Form(Page, {Save})

\* What these show of the domain comes from the list the sidebar shares.
DeactivateDomain ==
  LET Activation == [Poke EXCEPT !.lock = "form", !.needs = "nothing", !.then = "keep"]
  IN  Bare(Page, {Activation, [Activation EXCEPT !.dialog = "plain"]})
DeleteDomain == Bare(Page, {[End EXCEPT !.needs = "nothing", !.dialog = "typed"]})
TransferDomain == Bare(Page, {[End EXCEPT !.needs = "nothing"]})

-----------------------------------------------------------------------------
(* The account. *)

\* A row is removed after a question, which stays when that fails; its role is
\* changed at once, without a flag.
RemoveNamed == [Drop EXCEPT !.aim = "row", !.dialog = "stays"]
ChangeRole == Unlocked([Poke EXCEPT !.then = "always"])
OrganizationPage ==
  OfAccount([List(Page, {Add, ChangeRole, RemoveAtOnce, RemoveNamed}) EXCEPT !.reload = "await"])

\* The three kinds of request share one flag, which the upload of a logo sets
\* and clears without waiting for it.
OrganizationWebmail ==
  LET Other == [Poke EXCEPT !.lock = "form"]
  IN  OfAccount(Form(Page, {Save, Other, [Other EXCEPT !.kind = "act"], [Other EXCEPT !.waits = FALSE]}))

\* A list that cannot be read again is shown empty.
AccountApiKeys == OfAccount([List(Page, {Add, RemoveNamed}) EXCEPT !.reload = "empties"])
LoadMore == [Poke EXCEPT !.kind = "act", !.lock = "more"]
ActivityPage == OfAccount(Form(Page, {LoadMore}))
BillingPlans == OfAccount(Form(Page, {Leave}))
BillingOverview == OfAccount(Form(Page, {Leave}))
BillingInvoices == OfAccount(Page)
StatusPage == OfAccount(Page)
TerminateAccount == OfAccount(Bare(Page, {[Leave EXCEPT !.dialog = "plain"]}))
AcceptInvite == OfAccount(Form(Page, {[Leave EXCEPT !.needs = "content"]}))
ResetPassword == OfAccount(Form(Page, {[Result EXCEPT !.needs = "content"]}))
NewDomain == OfAccount(Bare(Page, {Result}))

Pages ==
  {MailboxOverview, MailboxNotes, MailboxLimits, MailboxExpiration, MailboxListingSettings,
   MailboxServices, MailboxInternalAccess, MailboxDelegation, MailboxForwarding,
   MailboxIdentities, MailboxPassword, MailboxRepair, DeleteMailbox, MailboxActivity,
   MailboxLogs, MailboxUsage, MailboxesPage, DefaultLimits, DefaultServices,
   ImportMailboxes, NewMailbox, AddressAliases, DomainAliases, BccCaptures,
   PatternRewrites, Catchall, NewAlias, NewBccCapture, NewDomainAlias,
   NewPatternRewrite, ImportAliases, SpamSubject, SpamSenderLists,
   SpamRecipientDenylist, SpamOverview, DnsOverview, DnsRecords, DnsRecord,
   DomainDetail, DomainActivity, DomainNotes, ListingSettings, DeactivateDomain,
   DeleteDomain, TransferDomain, OrganizationPage, OrganizationWebmail,
   AccountApiKeys, ActivityPage, BillingPlans, BillingOverview, BillingInvoices,
   StatusPage, TerminateAccount, AcceptInvite, ResetPassword, NewDomain}
=============================================================================
