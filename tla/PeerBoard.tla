----------------------------- MODULE PeerBoard -----------------------------
(***************************************************************************)
(* What the DHT promises to the peers that use it: a board on which peers  *)
(* announce that they have the content of a key.  An announcement expires  *)
(* a fixed time after it was made.  A peer that asks for a key gets either *)
(* nothing or some announcements of this key that were still valid when it *)
(* asked; it never gets an empty answer, one that was never made, or one   *)
(* whose life somebody has prolonged.  An asker's answer is the set of the *)
(* answers that it got to its last question: none, or one.                 *)
(***************************************************************************)
EXTENDS Naturals

CONSTANTS Keys, Peers, Askers, Expiry, MaxTime

VARIABLES clock, board, asked, answer

boardVars == <<clock, board, asked, answer>>

Announcement == [key : Keys, peer : Peers, published : 0 .. MaxTime]

ValidAt(a, t) == t <= a.published + Expiry

NotAsking == [key |-> "none", since |-> 0]

BoardInit ==
    /\ clock = 0
    /\ board = {}
    /\ asked = [r \in Askers |-> NotAsking]
    /\ answer = [r \in Askers |-> {}]

BoardTick ==
    /\ clock' = clock + 1
    /\ UNCHANGED <<board, asked, answer>>

Announce ==
    /\ \E a \in Announcement : a.published = clock /\ board' = board \cup {a}
    /\ UNCHANGED <<clock, asked, answer>>

Ask(r) ==
    /\ asked[r] = NotAsking
    /\ \E k \in Keys : asked' = [asked EXCEPT ![r] = [key |-> k, since |-> clock]]
    /\ answer' = [answer EXCEPT ![r] = {}]
    /\ UNCHANGED <<clock, board>>

Answer(r) ==
    /\ asked[r] # NotAsking
    /\ \E S \in SUBSET board :
        /\ S # {}
        /\ \A a \in S : a.key = asked[r].key /\ ValidAt(a, asked[r].since)
        /\ answer' = [answer EXCEPT ![r] = {S}]
    /\ asked' = [asked EXCEPT ![r] = NotAsking]
    /\ UNCHANGED <<clock, board>>

\* Nothing is found, or the node asked by the askers R is gone.
NotFound(R) ==
    /\ asked' = [r \in Askers |-> IF r \in R THEN NotAsking ELSE asked[r]]
    /\ UNCHANGED <<clock, board, answer>>

BoardNext ==
    \/ BoardTick
    \/ Announce
    \/ \E r \in Askers : Ask(r) \/ Answer(r)
    \/ \E R \in SUBSET Askers : NotFound(R)

BoardSpec == BoardInit /\ [][BoardNext]_boardVars
=============================================================================
