----------------------------- MODULE ChangeFeed -----------------------------
(***************************************************************************)
(* What kvqc2d promises to the subscribers of its changes: the feed        *)
(* carries changes that are committed in the database, in the order of     *)
(* their commits, and none twice.  It does not promise that every commit   *)
(* reaches the feed.                                                       *)
(*                                                                         *)
(* A batch is what one call of storeData writes in one transaction;        *)
(* batches are numbered in the order in which they are written.            *)
(***************************************************************************)
EXTENDS Integers, Sequences

VARIABLES
    committed,  \* batches committed in the database
    topic       \* the Kafka topic: messages, each a set of batches

feedVars == <<committed, topic>>

FeedInit == committed = {} /\ topic = <<>>

Commit == /\ \E b \in committed' : /\ \A c \in committed : c < b
                                   /\ committed' = committed \union {b}
          /\ UNCHANGED topic

Publish == /\ \E m \in (SUBSET committed) \ {{}} :
              /\ \A i \in DOMAIN topic : \A b \in topic[i], c \in m : b < c
              /\ topic' = Append(topic, m)
           /\ UNCHANGED committed

FeedSpec == FeedInit /\ [][Commit \/ Publish]_feedVars
=============================================================================
