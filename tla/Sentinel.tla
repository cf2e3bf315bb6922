------------------------------ MODULE Sentinel ------------------------------
(***************************************************************************)
(* The sentinel thread of an edge worker (rust-ext, sentinel.rs): once a   *)
(* second it judges the signals of the node and moves the posture level    *)
(* that the hot path reads.  The learned baselines are behind BASELINES, a *)
(* std::sync::Mutex, which is not reentrant: lock() by the thread that     *)
(* holds it does not return.                                               *)
(***************************************************************************)
EXTENDS Naturals

L0_NORMAL == 0
L2_ELEVATED == 2
L3_GUARDED == 3
L4_LOCKDOWN == 4

\* A signal against its two thresholds: 0 below, 1 minor, 2 major.
Grades == 0 .. 2

Signals == [avail : Grades,      \* down_ratio or error rate, the worse
            cbOpen : BOOLEAN,    \* global_cb_state = 1
            waf : Grades, saturation : Grades]

VARIABLES
  pc,         \* "sleep", "judge", "waf", "errors", "saturation", "observe", "decide"
  locked,     \* BASELINES is held (by this thread, its only user)
  signals,    \* what the node shows
  sample,     \* what the thread read in this round
  anomaly,    \* one of the learned baselines flags the sample
  posture,    \* POSTURE
  settled     \* a minute has passed since the posture last changed

sentinelVars == <<pc, locked, signals, sample, anomaly, posture, settled>>

Count(s, grade) ==
  LET one(g) == IF g = grade THEN 1 ELSE 0 IN one(s.avail) + one(s.waf) + one(s.saturation)

\* compute_target
ComputeTarget(s) ==
  LET major == Count(s, 2)
      minor == Count(s, 1) + IF s.cbOpen THEN 1 ELSE 0
  IN CASE major >= 2 -> L4_LOCKDOWN
       [] major = 1 -> L3_GUARDED
       [] major = 0 /\ minor >= 2 -> L3_GUARDED
       [] major = 0 /\ minor = 1 -> L2_ELEVATED
       [] OTHER -> L0_NORMAL

Target == LET t == ComputeTarget(sample)
          IN IF t < L2_ELEVATED /\ anomaly THEN L2_ELEVATED ELSE t

-----------------------------------------------------------------------------
(* sentinel_loop *)

Sample ==
  /\ pc = "sleep"
  /\ sample' = signals /\ anomaly' = FALSE /\ pc' = "judge"
  /\ UNCHANGED <<locked, signals, posture, settled>>

LockBaselines ==
  /\ pc = "judge" /\ ~ locked
  /\ locked' = TRUE /\ pc' = "waf"
  /\ UNCHANGED <<signals, sample, anomaly, posture, settled>>

\* anomalous_waf, anomalous_errors, anomalous_saturation: lock, compare, and
\* drop the guard at the end of the statement.
Anomalous(at, next) ==
  /\ pc = at /\ ~ locked
  /\ \E found \in BOOLEAN : anomaly' = (anomaly \/ found)
  /\ pc' = next
  /\ UNCHANGED <<locked, signals, sample, posture, settled>>

\* anomalous_errors returns before it locks when the window is too thin.
ThinWindow ==
  /\ pc = "errors" /\ pc' = "saturation"
  /\ UNCHANGED <<locked, signals, sample, anomaly, posture, settled>>

\* Feed the baselines; the guard of LockBaselines goes out of scope.
Observe ==
  /\ pc = "observe"
  /\ locked' = FALSE /\ pc' = "decide"
  /\ UNCHANGED <<signals, sample, anomaly, posture, settled>>

\* Raise at once; decay one level per settled minute.
Decide ==
  /\ pc = "decide" /\ pc' = "sleep"
  /\ posture' = CASE Target > posture -> Target
                  [] Target < posture /\ settled ->
                       IF posture - 1 > Target THEN posture - 1 ELSE Target
                  [] OTHER -> posture
  /\ settled' = (settled /\ posture' = posture)
  /\ UNCHANGED <<locked, signals, sample, anomaly>>

MinutePasses ==
  /\ ~ settled /\ settled' = TRUE
  /\ UNCHANGED <<pc, locked, signals, sample, anomaly, posture>>

SignalsChange ==
  /\ signals' \in Signals
  /\ UNCHANGED <<pc, locked, sample, anomaly, posture, settled>>

-----------------------------------------------------------------------------
Thread ==
  \/ Sample \/ LockBaselines
  \/ Anomalous("waf", "errors") \/ Anomalous("errors", "saturation")
  \/ Anomalous("saturation", "observe")
  \/ ThinWindow \/ Observe \/ Decide

SentinelInit ==
  /\ pc = "sleep" /\ locked = FALSE
  /\ signals \in Signals /\ sample = signals /\ anomaly = FALSE
  /\ posture = L0_NORMAL /\ settled = TRUE

SentinelNext == Thread \/ MinutePasses \/ SignalsChange

SentinelSpec ==
  /\ SentinelInit /\ [][SentinelNext]_sentinelVars
  /\ WF_sentinelVars(Thread) /\ WF_sentinelVars(MinutePasses)

\* sentinel_loop "Raise instantly on any escalation": signals that stay at a
\* major grade bring the posture to GUARDED or above.
StormRaisesPosture ==
  (<>[](ComputeTarget(signals) >= L3_GUARDED)) => <>(posture >= L3_GUARDED)
=============================================================================
