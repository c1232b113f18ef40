----------------------------- MODULE FanControl -----------------------------
(***************************************************************************)
(* The fans of rl-scheduler (hardware.py): requests that set a GPU's fans  *)
(* to a fixed speed or to the temperature curve, the thread that follows   *)
(* the curve and retries what could not be restored, and the shutdown.     *)
(*                                                                         *)
(* A request holds GpuManager._lock from beginning to end and is one step; *)
(* the thread holds it while it visits the GPUs.  What a step may do to    *)
(* one GPU is a set of records.  Time is counted in polls of               *)
(* FAN_POLL_SECONDS.                                                       *)
(***************************************************************************)
EXTENDS Integers, Sequences

CONSTANTS
    Gpus,                \* those whose fans can be controlled
    MinSpeed, MaxSpeed,  \* what their fans support
    Speeds,              \* speeds that requests ask for
    Readings,            \* temperatures that may be read
    Cooldown,            \* FAN_COOLDOWN_SECONDS, in polls
    Driver,              \* the fans of a GPU are under the control of the driver
    Mixed,               \* the fans of one GPU differ: a command has failed half-way
    Curve,               \* automatic mode: the fans follow the curve
    Refused,             \* the reset at the shutdown has failed
    None

ASSUME ConstantsAssumption ==
    /\ MinSpeed \in Nat /\ MaxSpeed \in Nat /\ MinSpeed <= MaxSpeed
    /\ Speeds \subseteq Nat
    /\ Readings \subseteq Int
    /\ Cooldown \in Nat \ {0}
    /\ {Driver, Mixed, Curve, Refused, None} \cap Int = {}
    /\ Driver # Mixed /\ None # Driver
    /\ Curve \notin {Driver, Refused, None} /\ Refused \notin {Driver, None}

VARIABLES
    gpu,      \* the fans of each GPU and what GpuManager knows of them
    worker,   \* where _fan_thread is
    left,     \* GPUs that a loop of the thread or of shutdown() has still to visit
    phase     \* of the application

vars == <<gpu, worker, left, phase>>

-----------------------------------------------------------------------------
(* The curve                                                               *)

\* Bands count from 1 here.
FAN_CURVE == << <<0, 40>>, <<50, 60>>, <<65, 75>>, <<75, 90>>, <<80, 100>> >>
FAN_HYSTERESIS_C == 5
Bands == 1..5

Threshold(band) == FAN_CURVE[band][1]

\* Faulty variant of Speed: the range of the hardware is not regarded.
SpeedOfCurve(band) == FAN_CURVE[band][2]

\* _write_auto_fan_speed clamps to what the hardware supports.
Speed(band) ==
    LET speed == FAN_CURVE[band][2]
    IN  IF speed < MinSpeed THEN MinSpeed ELSE IF speed > MaxSpeed THEN MaxSpeed ELSE speed

\* _fan_band: the last band that is reached, or the first if none is.
FanBand(temperature) ==
    CHOOSE band \in Bands :
        /\ band = 1 \/ temperature >= Threshold(band)
        /\ \A higher \in Bands : higher > band => temperature < Threshold(higher)

Warm(band, temperature) == band = 1 \/ temperature > Threshold(band) - FAN_HYSTERESIS_C

-----------------------------------------------------------------------------
(* One GPU                                                                 *)

\* What is known of a GPU: its entry of _auto_fans (band is None without one),
\* whether it is in _pending_fan_restores; and, as history, what its user was
\* promised (a speed, Curve or Driver), the last temperature the curve was applied
\* to, and how long every reading has been cool and the band the same.
Gpu == [fans : Nat \cup {Driver, Mixed},
        band : Bands \cup {None}, cooling : 0..Cooldown \cup {None}, pending : BOOLEAN,
        promised : Nat \cup {Curve, Driver, Refused, None}, reading : Readings \cup {None},
        quiet : 0..Cooldown]

\* A command for each fan, or two: one that fails may come before or after others
\* that have changed something.
InPart(g) == {[g EXCEPT !.fans = fans] : fans \in {g.fans, Mixed}}

\* _restore_fan_auto, and the caller's bookkeeping.
Restored(g) ==
    {[g EXCEPT !.fans = Driver, !.pending = FALSE]} \cup InPart([g EXCEPT !.pending = TRUE])

\* Without its entry of _auto_fans.
Popped(g, promised) ==
    [g EXCEPT !.band = None, !.cooling = None, !.promised = promised, !.reading = None,
              !.quiet = 0]

\* _fallback_fan_auto
Fallback(g) == Restored(Popped(g, Driver))

\* _write_fan_speed: what becomes of the GPU if a command fails.
WriteFails(g) == UNION {Fallback(half) : half \in InPart(g)}

\* Faulty variant of ManualSet: the thread goes on with its curve.
ManualSetOnly(g, speed) ==
    [g EXCEPT !.fans = speed, !.pending = FALSE, !.promised = speed]

\* set_fan_speed
ManualSet(g, speed) ==
    [Popped(g, speed) EXCEPT !.fans = speed, !.pending = FALSE]

\* Faulty variant of BandSet: the other column of the curve is remembered.
BandSetSpeed(g, band, temperature) ==
    [g EXCEPT !.fans = Speed(band), !.band = Speed(band), !.cooling = None,
              !.reading = temperature, !.quiet = 0]

\* The fans follow a band from now on.
BandSet(g, band, temperature) ==
    [g EXCEPT !.fans = Speed(band), !.band = band, !.cooling = None,
              !.reading = temperature, !.quiet = 0]

\* set_fan_auto
AutoSet(g, temperature) ==
    [BandSet(g, FanBand(temperature), temperature)
        EXCEPT !.pending = FALSE, !.promised = Curve]

\* Faulty variant of Retried: what could not be restored is left alone.
RetriedNot(g) == {g}

Retried(g) == IF g.pending THEN Restored(g) ELSE {g}

\* A reading that is not cool starts the cooling anew, a cool one does not.
WarmReading(g, temperature) ==
    [g EXCEPT !.cooling = None, !.reading = temperature, !.quiet = 0]

CoolReading(g, temperature) ==
    [g EXCEPT !.cooling = IF g.cooling = None THEN 0 ELSE g.cooling, !.reading = temperature]

\* Faulty variant of Followed: a dip below the threshold is enough.
FollowedAtOnce(g, temperature) ==
    LET target == FanBand(temperature) IN
    IF target > g.band \/ (~Warm(g.band, temperature) /\ g.cooling # None)
    THEN {BandSet(g, target, temperature)} \cup WriteFails(g)
    ELSE IF Warm(g.band, temperature)
    THEN {WarmReading(g, temperature)}
    ELSE {CoolReading(g, temperature)}

\* The curve, for a GPU that follows it: up at once, down by one band only.
Followed(g, temperature) ==
    LET up == FanBand(temperature)
        down == g.band - 1
    IN  IF up > g.band
        THEN {BandSet(g, up, temperature)} \cup WriteFails(g)
        ELSE IF Warm(g.band, temperature)
        THEN {WarmReading(g, temperature)}
        ELSE IF g.cooling = Cooldown
        THEN {BandSet(g, down, temperature)} \cup WriteFails(g)
        ELSE {CoolReading(g, temperature)}

\* The body of the second loop of _update_auto_fans; a reading may fail.
Controlled(g) ==
    IF g.band = None
    THEN {g}
    ELSE Fallback(g) \cup UNION {Followed(g, temperature) : temperature \in Readings}

\* _update_auto_fans, for one GPU
Updated(g) == UNION {Controlled(r) : r \in Retried(g)}

Later(g) ==
    [g EXCEPT !.cooling = IF g.cooling \in 0..Cooldown - 1 THEN g.cooling + 1 ELSE g.cooling,
              !.quiet = IF g.quiet < Cooldown THEN g.quiet + 1 ELSE g.quiet]

\* A process that starts knows nothing, and touches nothing.
Forgotten(g) == [Popped(g, None) EXCEPT !.pending = FALSE]

\* shutdown(), for one GPU: what fails is not tried again.
ShutDown(g) ==
    {[Popped(g, Driver) EXCEPT !.fans = Driver, !.pending = FALSE]}
        \cup InPart(Popped(g, Refused))

-----------------------------------------------------------------------------
Init ==
    /\ gpu = [g \in Gpus |-> [fans |-> Driver, band |-> None, cooling |-> None,
                              pending |-> FALSE, promised |-> None, reading |-> None,
                              quiet |-> 0]]
    /\ worker = "none"
    /\ left = {}
    /\ phase = "up"

\* The thread has the lock while it visits.
LockFree == worker # "visiting"

\* _start_fan_thread
Started == IF worker = "none" THEN "waiting" ELSE worker

\* Faulty variant of SetManual: only a GPU that follows the curve needs the thread.
SetManualAlone(g) ==
    /\ phase = "up" /\ LockFree
    /\ \E speed \in Speeds :
        /\ speed \in MinSpeed..MaxSpeed
        /\ \E after \in {ManualSet(gpu[g], speed)} \cup WriteFails(gpu[g]) :
            gpu' = [gpu EXCEPT ![g] = after]
    /\ UNCHANGED <<worker, left, phase>>

\* A request with a speed that is out of range changes nothing.
SetManual(g) ==
    /\ phase = "up" /\ LockFree
    /\ \E speed \in Speeds :
        /\ speed \in MinSpeed..MaxSpeed
        /\ \E after \in {ManualSet(gpu[g], speed)} \cup WriteFails(gpu[g]) :
            /\ gpu' = [gpu EXCEPT ![g] = after]
            /\ worker' = IF after.pending THEN Started ELSE worker
    /\ UNCHANGED <<left, phase>>

\* A request whose reading of the temperature fails changes nothing.
SetAuto(g) ==
    /\ phase = "up" /\ LockFree
    /\ \E temperature \in Readings :
        \/ /\ gpu' = [gpu EXCEPT ![g] = AutoSet(gpu[g], temperature)]
           /\ worker' = Started
        \/ \E after \in WriteFails(gpu[g]) :
            /\ gpu' = [gpu EXCEPT ![g] = after]
            /\ worker' = IF after.pending THEN Started ELSE worker
    /\ UNCHANGED <<left, phase>>

(* _fan_loop                                                               *)

\* The thread has waited for one poll.
Wake ==
    /\ worker = "waiting" /\ phase = "up"
    /\ worker' = "awake"
    /\ gpu' = [g \in Gpus |-> Later(gpu[g])]
    /\ UNCHANGED <<left, phase>>

\* It waits for the lock for another poll.
Delay ==
    /\ worker = "awake"
    /\ gpu' = [g \in Gpus |-> Later(gpu[g])]
    /\ UNCHANGED <<worker, left, phase>>

(* _update_auto_fans *)

Lock ==
    /\ worker = "awake"
    /\ worker' = "visiting"
    /\ left' = Gpus
    /\ UNCHANGED <<gpu, phase>>

Visit(g) ==
    /\ worker = "visiting" /\ g \in left
    /\ \E after \in Updated(gpu[g]) : gpu' = [gpu EXCEPT ![g] = after]
    /\ left' = left \ {g}
    /\ UNCHANGED <<worker, phase>>

Unlock ==
    /\ worker = "visiting" /\ left = {}
    /\ worker' = "waiting"
    /\ UNCHANGED <<gpu, left, phase>>

\* _fan_stop is set.
WorkerEnds ==
    /\ worker = "waiting" /\ phase = "stopping"
    /\ worker' = "ended"
    /\ UNCHANGED <<gpu, left, phase>>

(* shutdown()                                                              *)

Shutdown ==
    /\ phase = "up"
    /\ phase' = "stopping"
    /\ UNCHANGED <<gpu, worker, left>>

\* Faulty variant of ResetBegin: only what follows the curve is reset.
ResetBeginAuto ==
    /\ phase = "stopping"
    /\ worker \in {"none", "ended"}
    /\ phase' = "resetting"
    /\ left' = {g \in Gpus : gpu[g].band # None}
    /\ UNCHANGED <<gpu, worker>>

\* The thread was never started, or has been joined.
ResetBegin ==
    /\ phase = "stopping"
    /\ worker \in {"none", "ended"}
    /\ phase' = "resetting"
    /\ left' = Gpus
    /\ UNCHANGED <<gpu, worker>>

Reset(g) ==
    /\ phase = "resetting" /\ g \in left
    /\ \E after \in ShutDown(gpu[g]) : gpu' = [gpu EXCEPT ![g] = after]
    /\ left' = left \ {g}
    /\ UNCHANGED <<worker, phase>>

ResetEnd ==
    /\ phase = "resetting" /\ left = {}
    /\ phase' = "down"
    /\ UNCHANGED <<gpu, worker, left>>

\* The process starts, after a shutdown or after it was killed.
Boot ==
    /\ phase \in {"down", "killed"}
    /\ phase' = "up"
    /\ worker' = "none"
    /\ gpu' = [g \in Gpus |-> Forgotten(gpu[g])]
    /\ UNCHANGED left

Crash ==
    /\ phase \in {"up", "stopping", "resetting"}
    /\ phase' = "killed"
    /\ worker' = "none"
    /\ left' = {}
    /\ gpu' = [g \in Gpus |-> Forgotten(gpu[g])]

Requests == \E g \in Gpus : SetManual(g) \/ SetAuto(g)
Thread == Wake \/ Delay \/ Lock \/ (\E g \in Gpus : Visit(g)) \/ Unlock \/ WorkerEnds
Process == Shutdown \/ ResetBegin \/ (\E g \in Gpus : Reset(g)) \/ ResetEnd \/ Boot \/ Crash

Next == Requests \/ Thread \/ Process

Spec == Init /\ [][Next]_vars

\* A restore that is tried again and again succeeds some day.
Recovers(g) == Visit(g) /\ gpu[g].pending /\ ~gpu'[g].pending

\* The thread goes on, and gets the lock.
Fairness ==
    /\ WF_vars(Wake)
    /\ SF_vars(Lock)
    /\ WF_vars(Unlock)
    /\ \A g \in Gpus : WF_vars(Visit(g)) /\ SF_vars(Recovers(g))

FairSpec == Spec /\ Fairness

-----------------------------------------------------------------------------
(* Properties                                                              *)

\* Every variable stays in its type.
TypeOK ==
    /\ gpu \in [Gpus -> Gpu]
    /\ worker \in {"none", "waiting", "awake", "visiting", "ended"}
    /\ left \subseteq Gpus
    /\ phase \in {"up", "stopping", "resetting", "down", "killed"}

\* The hardware does what the user of a GPU was told: all fans at the speed that
\* was asked for, or at that of the band, or under the driver, or the restore is
\* still pending.  "A stale tick cannot undo Manual."
AsPromised(g) ==
    /\ g.promised \in Nat => g.fans = g.promised
    /\ g.promised = Curve => g.band # None /\ g.fans = Speed(g.band)
    /\ g.promised = Driver => g.fans = Driver \/ g.pending

FansAsPromised == \A g \in Gpus : AsPromised(gpu[g])

\* While the application runs, a GPU that follows the curve or waits for the driver
\* has a thread to look after it.
Attended ==
    phase = "up" =>
        \A g \in Gpus :
            gpu[g].band # None \/ gpu[g].pending => worker \in {"waiting", "awake", "visiting"}

\* The table of README.md:317: the fans of a GPU that follows the curve run at
\* least at the speed for the temperature that was read last, and within what the
\* hardware supports.
Cooled(g) ==
    g.band # None =>
        /\ g.fans \in MinSpeed..MaxSpeed
        /\ \A band \in Bands :
            g.reading >= Threshold(band) =>
                g.fans >= FAN_CURVE[band][2] \/ g.fans = MaxSpeed

FansCool == \A g \in Gpus : Cooled(gpu[g])

\* "Each downward step must earn its own cooling delay": the thread slows a fan by
\* one band, after a whole cooldown without another step or a warm reading.
Earned(g, after) ==
    Curve = g.promised /\ Curve = after.promised /\ after.band < g.band =>
        after.band = g.band - 1 /\ g.quiet = Cooldown

StepsAreEarned ==
    [][worker = "visiting" => \A g \in Gpus : Earned(gpu[g], gpu'[g])]_vars

\* "On server shutdown, all fans are reset": what is not was refused by the
\* hardware in the last attempt, and nothing touches the fans after it.
ShutdownRestores ==
    phase = "down" => \A g \in Gpus : gpu[g].fans = Driver \/ gpu[g].promised = Refused

\* "The controller retries every five seconds until restoration succeeds or a new
\* setting is applied", or the application ends.
RestoresAreRetried ==
    \A g \in Gpus : gpu[g].pending /\ phase = "up" ~> ~gpu[g].pending \/ phase # "up"

(* The inductive invariant.                                                *)

\* Who follows the curve was promised to, waits for nothing, and runs in the band
\* of the last reading or in a higher one.
OnTheCurve(g) ==
    g.band # None =>
        /\ g.promised = Curve /\ ~g.pending
        /\ g.fans = Speed(g.band)
        /\ g.reading # None /\ FanBand(g.reading) <= g.band

\* Whatever else was promised is there, or waited for.
OffTheCurve(g) ==
    g.band = None =>
        /\ g.promised # Curve
        /\ g.promised \in Nat => g.fans = g.promised /\ ~g.pending
        /\ g.promised = Driver => g.fans = Driver \/ g.pending

\* The time since cooling_since is part of a quiet time.
CoolingIsQuiet(g) == g.cooling # None => g.cooling <= g.quiet

Consistent(g) == OnTheCurve(g) /\ OffTheCurve(g) /\ CoolingIsQuiet(g)

\* The thread ends when it is told to.
EndedIsTold == worker = "ended" => phase \in {"stopping", "resetting", "down"}

\* What shutdown() has visited is done with, and the thread has ended.
VisitedIsReset ==
    phase \in {"resetting", "down"} =>
        /\ worker \in {"none", "ended"}
        /\ \A g \in Gpus :
            (phase = "resetting" /\ g \in left) \/ gpu[g].fans = Driver
                \/ gpu[g].promised = Refused

IInv ==
    /\ \A g \in Gpus : Consistent(gpu[g])
    /\ Attended
    /\ EndedIsTold
    /\ VisitedIsReset
=============================================================================
