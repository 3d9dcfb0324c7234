----------------------------- MODULE MCSession -----------------------------
EXTENDS ClientSession

CONSTANTS t1, t2, u1, u2

\* Two tabs of one user: refreshes, reloads and sign-outs that overlap.
Shared == [tabs |-> {t1, t2}, pages |-> {"root"}, users |-> {}, accounts |-> {u1},
           session |-> u1, closed |-> FALSE, flows |-> 0, faults |-> 0]
\* Another user signs in while the first is signed in.
Switch == [Shared EXCEPT !.users = {u2}, !.accounts = {u1, u2}, !.pages = {"admin"}]
\* One tab and the identity provider, on a closed instance, with failures.
Provider == [tabs |-> {t1}, pages |-> {"auth", "missing"}, users |-> {u1},
             accounts |-> {u1}, session |-> NoUser, closed |-> TRUE, flows |-> 2,
             faults |-> 1]
\* A new instance and its first user.
Fresh == [Provider EXCEPT !.pages = {"root", "auth"}, !.accounts = {}, !.closed = FALSE, !.flows = 0]

MCScenarios == {Shared, Switch, Provider, Fresh}
=============================================================================
