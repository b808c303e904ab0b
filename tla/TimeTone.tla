------------------------------ MODULE TimeTone ------------------------------
(***************************************************************************)
(* The tone of a time server that has no hardware clock: internal source,  *)
(* virtual MET, fake tone, data after the tone (the defaults of            *)
(* sample_mission_cfg.h and cpu1_platform_cfg.h).  A timer, the 1 Hz task, *)
(* the tone task and the TIME task pass the tone on through semaphores and *)
(* the pipe of the TIME task, each as late as it happens to be.  A second  *)
(* has SEC ticks; the reference state is updated as a whole (the module    *)
(* TimeReference is about its readers).                                    *)
(***************************************************************************)
EXTENDS Integers, Sequences

CONSTANTS
    SEC,                    \* ticks in a second
    TONE_UNDER, TONE_OVER,  \* ToneUnderLimit, ToneOverLimit
    MIN_WINDOW, MAX_WINDOW, \* MinElapsed, MaxElapsed
    START_FLY, LATCH_FLY,   \* seconds without an update
    MAX_LOCAL,              \* MaxLocalClock, in ticks
    MSG_LIM,                \* the limit of the subscriptions
    Boot,                   \* the local clock at CFE_TIME_InitData
    Horizon,                \* bound on the time
    MaxLate                 \* ticks within which a second's work is done

ToneAssumption ==
    /\ SEC \in Nat \ {0} /\ {START_FLY, LATCH_FLY, MSG_LIM} \subseteq Nat \ {0}
    /\ (LATCH_FLY + 2) * SEC =< MAX_LOCAL \* latched before the clock wraps
    /\ {TONE_UNDER, TONE_OVER, MIN_WINDOW, MAX_WINDOW} \subseteq 0..SEC - 1

VARIABLES
    now,        \* ticks since a multiple of MAX_LOCAL
    ref,        \* the reference: AtToneMET, AtToneLatch, ClockFlyState
    vmet,       \* VirtualMET
    latch,      \* ToneSignalLatch
    prev,       \* PrevTime1 and PrevTime2 of CFE_TIME_ToneVerify
    forced,     \* Forced2Fly
    sem,        \* the binary semaphores that are given
    sending,    \* the tone task is between its two messages
    pipe,       \* CmdPipe
    set         \* history: the MET was commanded since the last update

vars == <<now, ref, vmet, latch, prev, forced, sem, sending, pipe, set>>

Init ==
    /\ now = Boot
    /\ ref = [met |-> 0, latch |-> Boot % MAX_LOCAL, fly |-> TRUE]
    /\ vmet = 0 /\ latch = 0 /\ prev = <<0, 0>>
    /\ forced = FALSE
    /\ sem = {} /\ sending = FALSE /\ pipe = <<>> /\ set = FALSE

LatchClock == now % MAX_LOCAL
Elapsed(from, to) == IF to < from THEN MAX_LOCAL - from + to ELSE to - from
TimeSinceTone == Elapsed(ref.latch, LatchClock)
CurrentMET == ref.met + TimeSinceTone

-----------------------------------------------------------------------------
(* The timer gives the local semaphore once a second.  The tasks are late   *)
(* by no more than MaxLate ticks.                                           *)
Quiet == sem = {} /\ ~sending /\ pipe = <<>>
Tick ==
    /\ now < Horizon /\ (Quiet \/ now % SEC < MaxLate)
    /\ now' = now + 1
    /\ sem' = IF now' % SEC = 0 THEN sem \cup {"local"} ELSE sem
    /\ UNCHANGED <<ref, vmet, latch, prev, forced, sending, pipe, set>>

(* CFE_SB_TransmitMsg to the TIME task: over the limit, the message is lost. *)
Sent(queue, m) ==
    IF Len(SelectSeq(queue, LAMBDA q : q = m)) < MSG_LIM THEN Append(queue, m)
                                                          ELSE queue

Local1HzTask ==
    /\ "local" \in sem
    /\ sem' = sem \ {"local"} /\ pipe' = Sent(pipe, "1hz")
    /\ UNCHANGED <<now, ref, vmet, latch, prev, forced, sending, set>>

Tone1HzTask ==
    \/ /\ "tone" \in sem /\ ~sending
       /\ sem' = sem \ {"tone"} /\ sending' = TRUE
       /\ pipe' = Sent(pipe, "tone")
       /\ UNCHANGED <<now, ref, vmet, latch, prev, forced, set>>
    \/ /\ sending
       /\ sending' = FALSE /\ pipe' = Sent(pipe, "send")
       /\ UNCHANGED <<now, ref, vmet, latch, prev, forced, sem, set>>

-----------------------------------------------------------------------------
(* The TIME task takes the next message. *)
Takes(m) == pipe # <<>> /\ Head(pipe) = m

(* Mutant of Overdue: the fly-wheel never starts by itself. *)
OverdueNever == FALSE
Overdue == ~ref.fly /\ TimeSinceTone >= START_FLY * SEC
LatchDue == ref.fly /\ TimeSinceTone >= LATCH_FLY * SEC

Local1HzStateMachine ==
    ref' = IF Overdue THEN [ref EXCEPT !.fly = TRUE]
           ELSE IF LatchDue
             THEN [ref EXCEPT !.met = CurrentMET, !.latch = LatchClock]
           ELSE ref

ToneGood ==
    LET e == Elapsed(latch, LatchClock)
    IN  \/ e >= SEC /\ e < SEC + TONE_OVER
        \/ e < SEC /\ e > TONE_UNDER

(* The state machine, and then the fake tone: CFE_TIME_Tone1HzISR. *)
OneHzCmd ==
    /\ Takes("1hz") /\ pipe' = Tail(pipe)
    /\ Local1HzStateMachine
    /\ vmet' = IF ToneGood THEN vmet + 1 ELSE vmet
    /\ sem' = IF ToneGood THEN sem \cup {"tone"} ELSE sem
    /\ latch' = LatchClock
    /\ UNCHANGED <<now, prev, forced, sending, set>>

ToneSignalCmd ==
    /\ Takes("tone") /\ pipe' = Tail(pipe)
    /\ UNCHANGED <<now, ref, vmet, latch, prev, forced, sem, sending, set>>

ToneSendCmd ==
    /\ Takes("send") /\ pipe' = Sent(Tail(pipe), "data")
    /\ UNCHANGED <<now, ref, vmet, latch, prev, forced, sem, sending, set>>

(* CFE_TIME_ToneVerify: the data comes in its window after a new tone. *)
Matches(time1, time2) ==
    /\ prev[1] # time1 /\ prev[2] # time2
    /\ Elapsed(time1, time2) \in MIN_WINDOW..MAX_WINDOW

(* A clock that leaves the fly-wheel has missed tones, so VirtualMET starts *)
(* again from the current MET.                                              *)
ToneUpdate ==
    /\ vmet' = IF ref.fly THEN CurrentMET \div SEC ELSE vmet
    /\ ref' = [met |-> vmet' * SEC, latch |-> latch, fly |-> FALSE]
    /\ set' = FALSE

ToneDataCmd ==
    /\ Takes("data") /\ pipe' = Tail(pipe)
    /\ IF Matches(latch, LatchClock) /\ ~forced THEN ToneUpdate
                                                ELSE UNCHANGED <<vmet, ref, set>>
    /\ prev' = <<latch, LatchClock>>
    /\ UNCHANGED <<now, latch, forced, sem, sending>>

(* Commands; with CFE_TIME_SetState the TIME task forces the fly-wheel. *)
SetState(flywheel) ==
    /\ forced' = flywheel
    /\ ref' = [ref EXCEPT !.fly = @ \/ flywheel]
    /\ UNCHANGED <<now, vmet, latch, prev, sem, sending, pipe, set>>

SetMET(met) ==
    /\ ref' = [ref EXCEPT !.met = met, !.latch = LatchClock]
    /\ vmet' = met \div SEC /\ set' = TRUE
    /\ UNCHANGED <<now, latch, prev, forced, sem, sending, pipe>>

(* Bound: one commanded MET, with subseconds. *)
Commanded == SetMET(SEC - 1)

Next ==
    \/ Tick \/ Local1HzTask \/ Tone1HzTask
    \/ OneHzCmd \/ ToneSignalCmd \/ ToneSendCmd \/ ToneDataCmd
    \/ Commanded \/ \E flywheel \in BOOLEAN : SetState(flywheel)

Spec == Init /\ [][Next]_vars
-----------------------------------------------------------------------------
(* Whatever tones are late, rejected or missed, an update of the reference  *)
(* moves the MET that everybody reads by less than a second, unless it was  *)
(* commanded meanwhile: a clock that has lost more tones than that is on    *)
(* the fly-wheel first, and takes the MET over from it.                     *)
METTracks == [][set \/ set' \/ CurrentMET' - CurrentMET \in 1 - SEC..SEC - 1]_vars
=============================================================================
