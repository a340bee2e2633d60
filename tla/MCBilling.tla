----------------------------- MODULE MCBilling -----------------------------
EXTENDS Billing, TLC

\* Identifiers of one kind are interchangeable; plans are not, where operators
\* assign only some of them.
Same == Permutations(Customers) \cup Permutations(Payers) \cup Permutations(Subs)
          \cup Permutations(Requests)
=============================================================================
