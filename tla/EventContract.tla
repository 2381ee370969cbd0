---------------------------- MODULE EventContract ----------------------------
(***************************************************************************)
(* What the IP accessory server promises about event notifications: a      *)
(* controller learns of every change of a characteristic it subscribed to, *)
(* except those it made itself, for as long as its session lasts and its   *)
(* pairing is not removed; it is told nothing else.  Several changes may   *)
(* be told as one, and when is left open.                                  *)
(***************************************************************************)
CONSTANTS Sessions, Chars

VARIABLES
    subs,       \* what each session subscribed to
    stale,      \* what has changed since the session was last told
    message,    \* what the notification now being sent to the session tells
    entitled    \* the sessions secured by a pairing that exists

vars == <<subs, stale, message, entitled>>

Nothing == [s \in Sessions |-> {}]

Init == subs = Nothing /\ stale = Nothing /\ message = Nothing /\ entitled = {}

\* The message to s, if any, is still being sent, or has just been sent.
Sending(s) == message'[s] \in {message[s], {}}

\* Session s asks to hear of c, or no longer to, or changes it, upon which R
\* changes: s does not hear of the change of c.
Request(s, c, R) ==
    /\ s \in entitled
    /\ \E on \in BOOLEAN :
           subs' = [subs EXCEPT ![s] = IF on THEN @ \cup {c} ELSE @ \ {c}]
    /\ stale' = [t \in Sessions |->
           (stale[t] \cup (R \ (IF t = s THEN {c} ELSE {}))) \cap subs'[t]]
    /\ \A t \in Sessions : Sending(t)
    /\ UNCHANGED entitled

\* R changes, of which the sessions T are to hear.
Change(R, T) ==
    /\ stale' = [t \in Sessions |->
           IF t \in T THEN stale[t] \cup (R \cap subs[t]) ELSE stale[t]]
    /\ UNCHANGED <<subs, message, entitled>>

\* Sessions are told: nothing twice, and nothing is dropped.
Notify ==
    /\ \A s \in Sessions :
           \/ Sending(s) /\ stale'[s] = stale[s]
           \/ /\ s \in entitled
              /\ message'[s] # {}
              /\ message'[s] \subseteq stale[s]
              /\ stale'[s] = stale[s] \ message'[s]
    /\ UNCHANGED <<subs, entitled>>

\* Sessions are secured or lose their pairing, and sessions end.
ChangeSessions ==
    \A s \in Sessions :
        \/ /\ subs'[s] = {} /\ stale'[s] = {} /\ message'[s] = {}
           /\ s \notin entitled'
        \/ subs'[s] = subs[s] /\ stale'[s] = stale[s] /\ Sending(s)

Next ==
    \/ \E s \in Sessions, c \in Chars, R \in SUBSET Chars : Request(s, c, R)
    \/ \E R \in SUBSET Chars :
           \/ Change(R, Sessions)
           \/ \E s \in Sessions : Change(R, {s})
    \/ Notify
    \/ ChangeSessions

Spec == Init /\ [][Next]_vars

=============================================================================
