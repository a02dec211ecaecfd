---------------------------- MODULE CacheContract -----------------------------
(***************************************************************************)
(* What core/cache_layer.py promises its callers, without leases, tokens   *)
(* or clocks.  For every key there is a source whose content is replaced   *)
(* by newer and newer versions (the database, written by the scheduler)    *)
(* and one cached version of it.  What the cache holds is never older than *)
(* anything it held before or than the last invalidation, and an answer is *)
(* either what the cache holds or something read since the caller asked.   *)
(***************************************************************************)
EXTENDS Integers

CONSTANTS Key,      \* cache keys
          Call,     \* calls of cached()
          KeyOf     \* the key each call asks for

VARIABLES source,   \* source[k]: newest version of k in the database
          content,  \* content[k]: version the cache holds, 0 for none
          floor,    \* floor[k]: no version below it may enter the cache
          asked,    \* asked[c]: source version when c was issued, 0 before
          answer    \* answer[c]: version handed to c, 0 for none

cvars == <<source, content, floor, asked, answer>>

CInit == /\ source  = [k \in Key |-> 1]
         /\ content = [k \in Key |-> 0]
         /\ floor   = [k \in Key |-> 0]
         /\ asked   = [c \in Call |-> 0]
         /\ answer  = [c \in Call |-> 0]

Supersede(k) == /\ source' = [source EXCEPT ![k] = @ + 1]
                /\ UNCHANGED <<content, floor, asked, answer>>

Ask(c) == /\ asked[c] = 0
          /\ asked' = [asked EXCEPT ![c] = source[KeyOf[c]]]
          /\ UNCHANGED <<source, content, floor, answer>>

\* Entries may disappear at any moment: expiry and eviction.
Forget == /\ \E K \in SUBSET Key :
               content' = [k \in Key |-> IF k \in K THEN 0 ELSE content[k]]
          /\ UNCHANGED <<source, floor, asked, answer>>

Discard(k) == /\ content' = [content EXCEPT ![k] = 0]
              /\ floor' = [floor EXCEPT ![k] = source[k]]
              /\ UNCHANGED <<source, asked, answer>>

\* c computed v and, unless it lost its lock, installs it.
Install(c, v) ==
  \/ UNCHANGED <<content, floor>>
  \/ /\ v >= floor[KeyOf[c]]
     /\ content' = [content EXCEPT ![KeyOf[c]] = v]
     /\ floor' = [floor EXCEPT ![KeyOf[c]] = v]

Compute(c) ==
  \E v \in asked[c] .. source[KeyOf[c]] :
    /\ asked[c] # 0
    /\ Install(c, v)
    /\ \/ answer' = answer
       \/ answer[c] = 0 /\ answer' = [answer EXCEPT ![c] = v]
    /\ UNCHANGED <<source, asked>>

Serve(c) == /\ content[KeyOf[c]] # 0
            /\ answer[c] = 0
            /\ answer' = [answer EXCEPT ![c] = content[KeyOf[c]]]
            /\ UNCHANGED <<source, content, floor, asked>>

CNext == \/ Forget
         \/ \E k \in Key : Supersede(k) \/ Discard(k)
         \/ \E c \in Call : Ask(c) \/ Compute(c) \/ Serve(c)

CSpec == CInit /\ [][CNext]_cvars
=============================================================================
