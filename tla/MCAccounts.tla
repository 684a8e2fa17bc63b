---------------------------- MODULE MCAccounts ----------------------------
\* Instances of Accounts: the setup inserts one user, a second can be created.
EXTENDS Accounts, TLC

CONSTANTS s, ann, n1, n2, m1, m2, t1, t2, thing, e1, e2, l1, l2, q1, q2

MCName == s :> n1
MCMail == s :> m1

Interchangeable ==
    Permutations(Tokens) \cup Permutations(Roles) \cup Permutations(Entries)
        \cup Permutations(Requests)
=============================================================================
