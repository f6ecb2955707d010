------------------------------ MODULE Presence ------------------------------
(***************************************************************************)
(* What discovery promises, without ports, sockets, descriptors, windows   *)
(* and timeouts: who is up, whom each client knows, and the words that are *)
(* in flight between them.                                                 *)
(*                                                                         *)
(* Only who knows nobody asks around.  A client learns of a peer by his    *)
(* question or his answer, and of nobody else; it answers questions, never *)
(* answers, and only those of strangers; it forgets a peer on his goodbye, *)
(* and everything when it goes down.  A word of a peer who is known        *)
(* already, and the goodbye of one who is not, change nothing and are not  *)
(* answered.  Words may be lost, delayed and overtaken, and outlive who    *)
(* said them; they are neither made up nor heard twice.                    *)
(***************************************************************************)
EXTENDS Integers, FiniteSets

CONSTANTS
    Client,
    Room        \* how many peers a client can know

VARIABLES up, knows, words

vars == <<up, knows, words>>

Init ==
    /\ up = [c \in Client |-> FALSE]
    /\ knows = [c \in Client |-> {}]
    /\ words = {}

\* c says the same to some of the clients, itself perhaps among them.
Says(c, type) ==
    \E hearers \in SUBSET Client :
        words' = words \cup {[type |-> type, from |-> c, to |-> d] : d \in hearers}

Enter(c) ==
    /\ ~up[c]
    /\ up' = [up EXCEPT ![c] = TRUE]
    /\ UNCHANGED <<knows, words>>

Search(c) ==
    /\ up[c]
    /\ knows[c] = {}
    /\ Says(c, "discovery")
    /\ UNCHANGED <<up, knows>>

Stops(c) ==
    /\ up[c]
    /\ up' = [up EXCEPT ![c] = FALSE]
    /\ knows' = [knows EXCEPT ![c] = {}]

\* With a goodbye to some, or to nobody.
Leave(c) == Stops(c) /\ Says(c, "closing")

\* Down in the middle of what w asked for.
Fail(w) == Stops(w.to) /\ words' = words \ {w}

Vanish(w) ==
    /\ words' = words \ {w}
    /\ UNCHANGED <<up, knows>>

\* A question is answered, or cannot be; an answer ends there.
Learn(w) ==
    /\ up[w.to]
    /\ w.type \in {"discovery", "reply"}
    /\ w.from /= w.to /\ w.from \notin knows[w.to]
    /\ knows' = [knows EXCEPT ![w.to] =
                    IF Cardinality(@) < Room THEN @ \cup {w.from} ELSE @]
    /\ \/ words' = words \ {w}
       \/ /\ w.type = "discovery"
          /\ words' = (words \ {w}) \cup
                          {[type |-> "reply", from |-> w.to, to |-> w.from]}
    /\ UNCHANGED up

Forget(w) ==
    /\ up[w.to]
    /\ w.type = "closing"
    /\ w.from /= w.to /\ w.from \in knows[w.to]
    /\ knows' = [knows EXCEPT ![w.to] = @ \ {w.from}]
    /\ words' = words \ {w}
    /\ UNCHANGED up

Next ==
    \/ \E c \in Client : Enter(c) \/ Search(c) \/ Leave(c)
    \/ \E w \in words : Fail(w) \/ Vanish(w) \/ Learn(w) \/ Forget(w)

Spec == Init /\ [][Next]_vars
=============================================================================
