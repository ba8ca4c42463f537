------------------------------ MODULE ChangeFeed ------------------------------
(***************************************************************************)
(* What an in-process source promises the queries that subscribe to it,    *)
(* whatever locks and channels it uses.                                    *)
(*                                                                         *)
(* Changes form one sequence, `log'.  Whoever is subscribed when a change  *)
(* is published is owed it, whatever labels it asked for, and receives it  *)
(* before the next is published.  The only entries a subscriber may miss   *)
(* are those whose publication was reported as failed, `lost'.             *)
(***************************************************************************)
EXTENDS Naturals, Sequences

CONSTANTS Subscribers,   \* the queries that may subscribe
          Changes        \* the changes that may be published

VARIABLES log,          \* the published changes, in publication order
          lost,         \* positions of the log whose publication failed
          subscribed,   \* who is subscribed
          owed,         \* subscribers that have not received the newest entry yet
          stream        \* [Subscribers -> Seq(Nat)]: positions each one received

feed == <<log, lost, subscribed, owed, stream>>

Init == /\ log = <<>>
        /\ lost = {}
        /\ subscribed = {} /\ owed = {}
        /\ stream = [q \in Subscribers |-> <<>>]

\* A change is published only when nobody is owed the previous one, and to all.
Publish(c) ==
    /\ owed = {}
    /\ log' = Append(log, c)
    /\ owed' = subscribed
    /\ UNCHANGED <<lost, subscribed, stream>>

Receive(q) ==
    /\ q \in owed
    /\ owed' = owed \ {q}
    /\ stream' = [stream EXCEPT ![q] = Append(@, Len(log))]
    /\ UNCHANGED <<log, lost, subscribed>>

\* Publication of the newest entry is given up and reported to the pusher.
GiveUp ==
    /\ log # <<>> /\ Len(log) \notin lost
    /\ lost' = lost \cup {Len(log)}
    /\ owed' = {}
    /\ UNCHANGED <<log, subscribed, stream>>

\* A subscription sees what is published from here on.
Join(q) ==
    /\ q \notin subscribed /\ stream[q] = <<>>
    /\ subscribed' = subscribed \cup {q}
    /\ UNCHANGED <<log, lost, owed, stream>>

\* Its stream ends, and with it what it was owed.
Quit(q) ==
    /\ q \in subscribed
    /\ subscribed' = subscribed \ {q}
    /\ owed' = owed \ {q}
    /\ stream' = [stream EXCEPT ![q] = <<>>]
    /\ UNCHANGED <<log, lost>>

Next == \/ \E c \in Changes : Publish(c)
        \/ \E q \in Subscribers : Receive(q) \/ Join(q) \/ Quit(q)
        \/ GiveUp

Spec == Init /\ [][Next]_feed
=============================================================================
