----------------------------- MODULE VoiceRecorder -----------------------------
(***************************************************************************)
(* The voice recorder of a page.  The browser answers the request for the  *)
(* microphone later, and reports the end of a recording later; meanwhile   *)
(* the user may press again or leave.  The references of the hook hold one *)
(* stream, one recorder, one timer and one mark of cancellation.           *)
(***************************************************************************)
EXTENDS Naturals

CONSTANT MaxTakes   \* bound: recordings asked for

VARIABLES
    take,       \* what became of each request for the microphone
    stream,     \* the take whose stream is referred to, 0 if none
    recorder,   \* the take whose recorder is referred to, 0 if none
    timer,      \* is a stop at ninety seconds scheduled?
    cancelled,
    button,     \* does the page show that it records?
    mounted,
    late,       \* history: a take began after the page had been left
    muddled     \* history: a request came while another request or recording was on,
                \* or a recorder could not be made or started on an open microphone

vars == <<take, stream, recorder, timer, cancelled, button, mounted, late, muddled>>
-----------------------------------------------------------------------------
Take == 1..MaxTakes
Fresh == [state |-> "none", open |-> FALSE, dropped |-> FALSE, heard |-> FALSE]

\* A take is asked for, recording, stopping (its end is not reported yet) or over.
In(t, s) == take[t].state = s

Init ==
    /\ take = [t \in Take |-> Fresh] /\ stream = 0 /\ recorder = 0
    /\ timer = FALSE /\ cancelled = FALSE /\ button = FALSE /\ mounted = TRUE
    /\ late = FALSE /\ muddled = FALSE

\* The take with the microphone open whose stream is referred to is closed.
Released(f) == IF stream = 0 THEN f ELSE [f EXCEPT ![stream].open = FALSE]

Stopping(f) ==
    IF recorder # 0 /\ In(recorder, "recording")
    THEN [f EXCEPT ![recorder].state = "stopping"] ELSE f
-----------------------------------------------------------------------------
\* The microphone is asked for; the button is not disabled meanwhile.
Press ==
    /\ mounted /\ ~button
    /\ \E t \in Take :
          /\ In(t, "none") /\ \A u \in Take : u < t => ~In(u, "none")
          /\ take' = [take EXCEPT ![t].state = "asked"]
    /\ muddled' = (muddled \/ \E u \in Take : ~In(u, "none") /\ ~In(u, "over"))
    /\ cancelled' = FALSE
    /\ UNCHANGED <<stream, recorder, timer, button, mounted, late>>

Refuse(t) ==
    /\ In(t, "asked") /\ take' = [take EXCEPT ![t].state = "over"]
    /\ UNCHANGED <<stream, recorder, timer, cancelled, button, mounted, late, muddled>>

\* Nothing is asked again when the microphone is there.
Grant(t) ==
    /\ In(t, "asked")
    /\ take' = [take EXCEPT ![t].state = "recording", ![t].open = TRUE]
    /\ stream' = t /\ recorder' = t /\ timer' = TRUE /\ button' = TRUE
    /\ late' = (late \/ ~mounted)
    /\ UNCHANGED <<cancelled, mounted, muddled>>

\* The recorder cannot be made, or cannot be started: nothing catches the error, and
\* the microphone stays open behind a page that does not show it.
GrantInVain(t) ==
    /\ In(t, "asked")
    /\ take' = [take EXCEPT ![t].state = "over", ![t].open = TRUE]
    /\ stream' = t /\ recorder' \in {recorder, t}
    /\ muddled' = TRUE
    /\ UNCHANGED <<timer, cancelled, button, mounted, late>>

\* By the button, and by the timer: the recorder that is referred to.
Stop ==
    /\ \/ mounted /\ button /\ UNCHANGED timer
       \/ timer /\ timer' = FALSE
    /\ take' = Stopping(take)
    /\ UNCHANGED <<stream, recorder, cancelled, button, mounted, late, muddled>>

Cancel ==
    /\ mounted /\ button
    /\ cancelled' = TRUE /\ timer' = FALSE /\ button' = FALSE
    /\ take' = [Stopping(Released(take)) EXCEPT ![recorder].dropped = TRUE] /\ stream' = 0
    /\ UNCHANGED <<recorder, mounted, late, muddled>>

\* A recorder whose stream has ended stops by itself.
Leave ==
    /\ mounted /\ mounted' = FALSE /\ cancelled' = TRUE /\ timer' = FALSE
    /\ take' = Released(take) /\ stream' = 0
    /\ UNCHANGED <<recorder, button, late, muddled>>

EndsByItself(t) ==
    /\ In(t, "recording") /\ ~take[t].open
    /\ take' = [take EXCEPT ![t].state = "stopping"]
    /\ UNCHANGED <<stream, recorder, timer, cancelled, button, mounted, late, muddled>>
-----------------------------------------------------------------------------
Over(t) == [take EXCEPT ![t].state = "over", ![t].heard = ~cancelled]

\* Mutant: the end of a recording leaves the stream alone.
AfterStopOpen(t) == Over(t)

\* The stream and the mark are those referred to when the end is reported.
AfterStop(t) == Released(Over(t))

Stopped(t) ==
    /\ In(t, "stopping") /\ take' = AfterStop(t)
    /\ stream' = 0 /\ timer' = FALSE /\ button' = FALSE
    /\ UNCHANGED <<recorder, cancelled, mounted, late, muddled>>

Next ==
    \/ Press \/ Stop \/ Cancel \/ Leave
    \/ \E t \in Take : Refuse(t) \/ Grant(t) \/ GrantInVain(t) \/ EndsByItself(t) \/ Stopped(t)

Spec == Init /\ [][Next]_vars
-----------------------------------------------------------------------------
\* The microphone is open only while the page is there and shows that it records, unless
\* the browser granted it after the page had been left or the user pressed twice.
MicrophoneShown == ~late => \A t \in Take : take[t].open => mounted /\ button

\* What was cancelled is not sent to be understood.
CancelledUnheard == \A t \in Take : ~(take[t].dropped /\ take[t].heard)

\* Both, but for a press of the button while a take is under way and for a recorder
\* that fails on an open microphone.
VoiceKept == ~muddled => MicrophoneShown /\ CancelledUnheard
-----------------------------------------------------------------------------
\* Why: one take at a time is under way, and the references are to that one.
On(t) == In(t, "recording") \/ In(t, "stopping")
UnderWay(t) == In(t, "asked") \/ On(t)

TypeOK ==
    /\ take \in [Take -> [state : {"none", "asked", "recording", "stopping", "over"},
                           open : BOOLEAN, dropped : BOOLEAN, heard : BOOLEAN]]
    /\ stream \in {0} \cup Take /\ recorder \in {0} \cup Take
    /\ timer \in BOOLEAN /\ cancelled \in BOOLEAN /\ button \in BOOLEAN /\ mounted \in BOOLEAN
    /\ late \in BOOLEAN /\ muddled \in BOOLEAN

References ==
    /\ \A t, u \in Take : UnderWay(t) /\ UnderWay(u) => t = u
    /\ stream # 0 => On(stream) /\ button /\ (mounted \/ late)
    /\ button => recorder # 0 /\ On(recorder)
    /\ \A t \in Take :
          /\ take[t].open => stream = t
          /\ take[t].dropped => In(t, "over") \/ (On(t) /\ cancelled)
          /\ take[t].heard => In(t, "over") /\ ~take[t].dropped

VoiceInv == TypeOK /\ (~muddled => References)
=============================================================================
