----------------------------- MODULE MCCacheLayer -----------------------------
(* Small instances of CacheLayer for TLC.                                  *)
EXTENDS CacheLayer, TLC

CONSTANTS c1, c2, c3, k1, k2, p1, p2

\* Three calls of three processes for one key.
OneKey  == [c \in {c1, c2, c3} |-> k1]
OwnProc == [c \in {c1, c2, c3} |-> c]

\* Calls of processes of their own for one key are interchangeable.
CallSymmetry == Permutations({c1, c2, c3})

\* Two calls of two processes for one key, and one call of the first process
\* for another key: the keys share the limit of its refreshes.
TwoKeys   == [c \in {c1, c2, c3} |-> IF c = c3 THEN k2 ELSE k1]
SplitCall == [c \in {c1, c2, c3} |-> IF c = c2 THEN p2 ELSE p1]

\* The processes start with entries in Valkey that earlier ones left there,
\* stale or too stale to serve, their store delayed by d seconds.
LeftBehind(s, d) == [version |-> 1, stored_at |-> s, expires |-> s + d + Stale]

WarmInit == /\ now = Stale + 1
            /\ \E e \in {LeftBehind(0, 2), LeftBehind(1, 1), NoData} :
                 data = [k \in Key |-> IF k = k1 THEN e ELSE LeftBehind(1, 1)]
            /\ lock = [k \in Key |-> NoLock]
            /\ superseded = [k \in Key |-> <<>>]
            /\ floor = [k \in Key |-> data[k].version]
            /\ call = [c \in Call |-> Idle]
            /\ reply = [c \in Call |-> NoReply]

WarmSpec == WarmInit /\ [][Next]_vars /\ Fairness
=============================================================================
