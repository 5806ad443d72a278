---------------------------- MODULE WsEventStream ----------------------------
(***************************************************************************)
(* What the consumer of WsClient.connect() may rely on: the life-cycle     *)
(* events of one task, in the order in which the channel delivers them.    *)
(* Connected comes once, for the first session, however many dials failed  *)
(* before it.  Every later session is announced by Reconnected, with the   *)
(* number of the last Reconnecting.  Reconnecting events are numbered from *)
(* 1 without a gap, up to limit, the count starts over with each session,  *)
(* and a failed dial is reported by an Error between two of them.          *)
(***************************************************************************)
EXTENDS Naturals

VARIABLES
    limit,     \* the attempts in a row the client allows itself, 0: unlimited
    last,      \* the last event sent, [kind, n]
    attempt,   \* Reconnecting events since the last session
    greeted    \* a session has been announced

streamVars == <<limit, last, attempt, greeted>>

StreamInit ==
    /\ limit \in Nat
    /\ last = [kind |-> "Nothing", n |-> 0]
    /\ attempt = 0
    /\ greeted = FALSE

\* A dial is under way: nothing was sent yet, or the last word was Reconnecting.
Dialing == last.kind \in {"Nothing", "Reconnecting"}

SessionUp ==
    /\ Dialing
    /\ last' = IF greeted THEN [kind |-> "Reconnected", n |-> attempt]
                          ELSE [kind |-> "Connected", n |-> 0]
    /\ attempt' = 0
    /\ greeted' = TRUE
    /\ UNCHANGED limit

\* The close frame, the end of the stream or the consumer's own close().
SessionDown ==
    /\ last.kind \in {"Connected", "Reconnected"}
    /\ \E kind \in {"Disconnected", "Error"} : last' = [kind |-> kind, n |-> 0]
    /\ UNCHANGED <<limit, attempt, greeted>>

DialFailed ==
    /\ Dialing
    /\ last' = [kind |-> "Error", n |-> 0]
    /\ UNCHANGED <<limit, attempt, greeted>>

\* A session may also end without a word of its own.
TryAgain ==
    /\ ~Dialing
    /\ limit = 0 \/ attempt < limit
    /\ last' = [kind |-> "Reconnecting", n |-> attempt + 1]
    /\ attempt' = attempt + 1
    /\ UNCHANGED <<limit, greeted>>

StreamNext == SessionUp \/ SessionDown \/ DialFailed \/ TryAgain

StreamSpec == StreamInit /\ [][StreamNext]_streamVars
=============================================================================
