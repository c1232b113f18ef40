-------------------------- MODULE FanControlProofs --------------------------
(***************************************************************************)
(* Proofs about FanControl.  What a step may do to one GPU is a set of     *)
(* records, so most of the argument is about records: each member of such  *)
(* a set has its type and is Consistent if the record before it is.        *)
(***************************************************************************)
EXTENDS FanControl, TLAPS

-----------------------------------------------------------------------------
(* The curve                                                               *)

\* The five bands of the curve.
LEMMA CurveValues ==
    /\ Threshold(1) = 0  /\ FAN_CURVE[1][2] = 40
    /\ Threshold(2) = 50 /\ FAN_CURVE[2][2] = 60
    /\ Threshold(3) = 65 /\ FAN_CURVE[3][2] = 75
    /\ Threshold(4) = 75 /\ FAN_CURVE[4][2] = 90
    /\ Threshold(5) = 80 /\ FAN_CURVE[5][2] = 100
  BY DEF Threshold, FAN_CURVE

\* A higher band begins at a higher temperature and asks for a higher speed.
LEMMA CurveRises ==
    /\ \A band \in Bands : Threshold(band) \in Nat /\ FAN_CURVE[band][2] \in Nat
    /\ \A low, high \in Bands :
         low < high => /\ Threshold(low) < Threshold(high)
                       /\ FAN_CURVE[low][2] < FAN_CURVE[high][2]
<1>1. \A band \in Bands : band = 1 \/ band = 2 \/ band = 3 \/ band = 4 \/ band = 5
  BY DEF Bands
<1>2. \A band \in Bands : Threshold(band) \in Nat /\ FAN_CURVE[band][2] \in Nat
  BY <1>1, CurveValues
<1>3. ASSUME NEW low \in Bands, NEW high \in Bands, low < high
      PROVE  /\ Threshold(low) < Threshold(high)
             /\ FAN_CURVE[low][2] < FAN_CURVE[high][2]
  BY <1>1, <1>3, CurveValues
<1> QED
  BY <1>2, <1>3

\* FanBand exists: the bands below the temperature are an initial segment.
LEMMA FanBandIs ==
    ASSUME NEW temperature \in Int
    PROVE  /\ FanBand(temperature) \in Bands
           /\ FanBand(temperature) = 1 \/ temperature >= Threshold(FanBand(temperature))
           /\ \A higher \in Bands :
                higher > FanBand(temperature) => temperature < Threshold(higher)
<1> DEFINE Last(band) ==
        /\ band = 1 \/ temperature >= Threshold(band)
        /\ \A higher \in Bands : higher > band => temperature < Threshold(higher)
<1>1. \A band \in Bands : band = 1 \/ band = 2 \/ band = 3 \/ band = 4 \/ band = 5
  BY DEF Bands
<1>2. \E band \in Bands : Last(band)
  <2>1. CASE temperature < 50
    <3>1. Last(1)
      BY <1>1, <2>1, CurveValues
    <3> QED
      BY <3>1 DEF Bands
  <2>2. CASE temperature >= 50 /\ temperature < 65
    <3>1. Last(2)
      BY <1>1, <2>2, CurveValues
    <3> QED
      BY <3>1 DEF Bands
  <2>3. CASE temperature >= 65 /\ temperature < 75
    <3>1. Last(3)
      BY <1>1, <2>3, CurveValues
    <3> QED
      BY <3>1 DEF Bands
  <2>4. CASE temperature >= 75 /\ temperature < 80
    <3>1. Last(4)
      BY <1>1, <2>4, CurveValues
    <3> QED
      BY <3>1 DEF Bands
  <2>5. CASE temperature >= 80
    <3>1. Last(5)
      BY <1>1, <2>5, CurveValues
    <3> QED
      BY <3>1 DEF Bands
  <2> QED
    BY <2>1, <2>2, <2>3, <2>4, <2>5
<1>3. FanBand(temperature) = CHOOSE band \in Bands : Last(band)
  BY DEF FanBand
<1> HIDE DEF Last
<1>4. FanBand(temperature) \in Bands /\ Last(FanBand(temperature))
  BY <1>2, <1>3
<1> QED
  BY <1>4 DEF Last

\* The speed of a band is a speed of the hardware.
LEMMA SpeedIs ==
    ASSUME NEW band \in Bands
    PROVE  /\ Speed(band) \in Nat
           /\ Speed(band) \in MinSpeed..MaxSpeed
           /\ Speed(band) >= FAN_CURVE[band][2] \/ Speed(band) = MaxSpeed
  BY CurveRises, ConstantsAssumption DEF ConstantsAssumption, Speed

-----------------------------------------------------------------------------
(* Records                                                                 *)

\* The fields of a record that has lost its entry of _auto_fans.
LEMMA PoppedIs ==
    ASSUME NEW g \in Gpu, NEW promised \in Nat \cup {Curve, Driver, Refused, None}
    PROVE  /\ Popped(g, promised) \in Gpu
           /\ Popped(g, promised).fans = g.fans
           /\ Popped(g, promised).band = None
           /\ Popped(g, promised).cooling = None
           /\ Popped(g, promised).pending = g.pending
           /\ Popped(g, promised).promised = promised
<1>1. 0 \in 0..Cooldown
  BY ConstantsAssumption DEF ConstantsAssumption
<1>2. Popped(g, promised) \in Gpu
  BY <1>1 DEF Popped, Gpu
<1>3. /\ Popped(g, promised).fans = g.fans
      /\ Popped(g, promised).band = None
      /\ Popped(g, promised).cooling = None
      /\ Popped(g, promised).pending = g.pending
      /\ Popped(g, promised).promised = promised
  BY DEF Popped, Gpu
<1> QED
  BY <1>2, <1>3

\* What is off the curve and keeps what it promised is consistent.
LEMMA OffIsConsistent ==
    ASSUME NEW g \in Gpu, g.band = None, g.cooling = None, OffTheCurve(g)
    PROVE  Consistent(g)
  BY DEF Consistent, OnTheCurve, CoolingIsQuiet

\* Giving the fans back keeps what is true of a GPU that is off the curve.
LEMMA RestoredIs ==
    ASSUME NEW g \in Gpu, g.band = None, g.cooling = None, g.promised = Driver,
           NEW after \in Restored(g)
    PROVE  after \in Gpu /\ Consistent(after) /\ after.promised = Driver /\ after.band = None
<1>1. after \in Gpu /\ after.band = None /\ after.cooling = None /\ after.promised = Driver
  BY DEF Restored, InPart, Gpu
<1>2. after.fans = Driver \/ after.pending
  BY DEF Restored, InPart, Gpu
<1>3. OffTheCurve(after)
  BY <1>1, <1>2, ConstantsAssumption DEF OffTheCurve, ConstantsAssumption
<1> QED
  BY <1>1, <1>3, OffIsConsistent

\* A fallback leaves automatic mode and promises the driver, done or pending.
LEMMA FallbackIs ==
    ASSUME NEW g \in Gpu, NEW after \in Fallback(g)
    PROVE  after \in Gpu /\ Consistent(after) /\ after.promised = Driver /\ after.band = None
<1>1. after \in Restored(Popped(g, Driver))
  BY DEF Fallback
<1> QED
  BY <1>1, PoppedIs, RestoredIs

\* A write that fails ends in a fallback.
LEMMA WriteFailsIs ==
    ASSUME NEW g \in Gpu, NEW after \in WriteFails(g)
    PROVE  after \in Gpu /\ Consistent(after) /\ after.promised = Driver /\ after.band = None
<1>1. PICK half \in InPart(g) : after \in Fallback(half)
  BY DEF WriteFails
<1>2. half \in Gpu
  BY <1>1 DEF InPart, Gpu
<1> QED
  BY <1>1, <1>2, FallbackIs

\* A manual setting leaves automatic mode and ends a pending restore.
LEMMA ManualSetIs ==
    ASSUME NEW g \in Gpu, NEW speed \in Nat
    PROVE  LET after == ManualSet(g, speed)
           IN  after \in Gpu /\ Consistent(after) /\ after.band = None /\ ~after.pending
<1> DEFINE after == ManualSet(g, speed)
           popped == Popped(g, speed)
<1>0. popped \in Gpu /\ popped.band = None /\ popped.cooling = None /\ popped.promised = speed
  BY PoppedIs
<1> HIDE DEF popped
<1>1. after = [popped EXCEPT !.fans = speed, !.pending = FALSE]
  BY DEF ManualSet, popped
<1>2. /\ after \in Gpu /\ after.band = None /\ after.cooling = None /\ ~after.pending
      /\ after.fans = speed /\ after.promised = speed
  BY <1>0, <1>1 DEF Gpu
<1>3. OffTheCurve(after)
  BY <1>2, ConstantsAssumption DEF OffTheCurve, ConstantsAssumption
<1> QED
  BY <1>2, <1>3, OffIsConsistent

\* The band of a GPU may be set to that of the reading, or a higher one.
LEMMA BandSetIs ==
    ASSUME NEW g \in Gpu, NEW band \in Bands, NEW temperature \in Readings,
           FanBand(temperature) <= band, g.promised = Curve, ~g.pending
    PROVE  LET after == BandSet(g, band, temperature)
           IN  /\ after \in Gpu /\ Consistent(after)
               /\ after.band = band /\ after.promised = Curve
<1> DEFINE after == BandSet(g, band, temperature)
<1>1. 0 \in 0..Cooldown /\ Speed(band) \in Nat
  BY SpeedIs, ConstantsAssumption DEF ConstantsAssumption
<1>2. after \in Gpu
  BY <1>1 DEF BandSet, Gpu
<1>3. /\ after.band = band /\ after.cooling = None /\ after.fans = Speed(band)
      /\ after.reading = temperature /\ after.promised = Curve /\ ~after.pending
  BY <1>1 DEF BandSet, Gpu
<1>4. temperature # None /\ band # None
  BY ConstantsAssumption DEF ConstantsAssumption, Bands
<1> HIDE DEF after
<1>5. Consistent(after)
  BY <1>3, <1>4 DEF Consistent, OnTheCurve, OffTheCurve, CoolingIsQuiet
<1> QED
  BY <1>2, <1>3, <1>5 DEF after

\* An automatic setting starts in the band of the reading.
LEMMA AutoSetIs ==
    ASSUME NEW g \in Gpu, NEW temperature \in Readings
    PROVE  AutoSet(g, temperature) \in Gpu /\ Consistent(AutoSet(g, temperature))
<1> DEFINE band == FanBand(temperature)
           asked == [g EXCEPT !.pending = FALSE, !.promised = Curve]
<1>1. temperature \in Int /\ band \in Bands /\ band <= band
  BY FanBandIs, ConstantsAssumption DEF ConstantsAssumption, Bands
<1>2. asked \in Gpu
  BY DEF Gpu
<1>4. asked.promised = Curve
  BY DEF Gpu
<1>5. ~asked.pending
  BY DEF Gpu
<1>3. AutoSet(g, temperature) = BandSet(asked, band, temperature)
  BY DEF AutoSet, BandSet, Gpu
<1> HIDE DEF asked
<1>6. LET after == BandSet(asked, band, temperature)
      IN  after \in Gpu /\ Consistent(after)
  BY <1>1, <1>2, <1>4, <1>5, BandSetIs
<1> QED
  BY <1>3, <1>6

\* A warm reading, or the first cool ones, leave the band alone.
LEMMA ReadingIs ==
    ASSUME NEW g \in Gpu, Consistent(g), g.band # None, NEW temperature \in Readings,
           FanBand(temperature) <= g.band
    PROVE  /\ LET after == WarmReading(g, temperature)
              IN  after \in Gpu /\ Consistent(after) /\ after.band = g.band
           /\ LET after == CoolReading(g, temperature)
              IN  after \in Gpu /\ Consistent(after) /\ after.band = g.band
<1> DEFINE warm == WarmReading(g, temperature)
           cool == CoolReading(g, temperature)
<1>1. 0 \in 0..Cooldown /\ temperature # None /\ g.quiet \in 0..Cooldown
  BY ConstantsAssumption DEF ConstantsAssumption, Gpu
<1>2. warm \in Gpu /\ cool \in Gpu
  BY <1>1 DEF WarmReading, CoolReading, Gpu
<1>3. /\ warm.fans = g.fans /\ warm.band = g.band /\ warm.pending = g.pending
      /\ warm.promised = g.promised /\ warm.reading = temperature /\ warm.cooling = None
  BY DEF WarmReading, Gpu
<1>4. /\ cool.fans = g.fans /\ cool.band = g.band /\ cool.pending = g.pending
      /\ cool.promised = g.promised /\ cool.reading = temperature
      /\ cool.quiet = g.quiet
      /\ cool.cooling = IF g.cooling = None THEN 0 ELSE g.cooling
  BY DEF CoolReading, Gpu
<1> HIDE DEF warm, cool
<1>5. Consistent(warm)
  BY <1>1, <1>3 DEF Consistent, OnTheCurve, OffTheCurve, CoolingIsQuiet
<1>6. OnTheCurve(cool) /\ OffTheCurve(cool)
  BY <1>1, <1>4 DEF Consistent, OnTheCurve, OffTheCurve
<1>7. CoolingIsQuiet(cool)
  BY <1>1, <1>4 DEF Consistent, CoolingIsQuiet
<1> QED
  BY <1>2, <1>3, <1>4, <1>5, <1>6, <1>7 DEF Consistent, warm, cool

\* Following the curve slows the fans by one band, and only after a cooldown.
LEMMA FollowedIs ==
    ASSUME NEW g \in Gpu, Consistent(g), g.band # None, NEW temperature \in Readings,
           NEW after \in Followed(g, temperature)
    PROVE  after \in Gpu /\ Consistent(after) /\ Earned(g, after)
<1> DEFINE up == FanBand(temperature)
           down == g.band - 1
<1>1. /\ temperature \in Int /\ up \in Bands /\ g.band \in Bands
      /\ g.promised = Curve /\ ~g.pending /\ Curve # Driver
      /\ up = 1 \/ temperature >= Threshold(up)
  BY FanBandIs, ConstantsAssumption
     DEF ConstantsAssumption, Consistent, OnTheCurve, Gpu
<1>2. CASE after \in WriteFails(g)
  BY <1>1, <1>2, WriteFailsIs DEF Earned
<1>3. CASE up > g.band /\ after = BandSet(g, up, temperature)
  <2>1. /\ after \in Gpu /\ Consistent(after)
        /\ after.band = up
    BY <1>1, <1>3, BandSetIs DEF Bands
  <2> QED
    BY <1>1, <1>3, <2>1 DEF Earned, Bands
<1>4. CASE up <= g.band /\ after \in {WarmReading(g, temperature), CoolReading(g, temperature)}
  <2>1. after \in Gpu /\ Consistent(after) /\ after.band = g.band
    BY <1>4, ReadingIs
  <2> QED
    BY <1>1, <2>1 DEF Earned, Bands
<1>5. CASE /\ up <= g.band /\ ~Warm(g.band, temperature) /\ g.cooling = Cooldown
           /\ after = BandSet(g, down, temperature)
  <2>1. g.band # 1 /\ temperature < Threshold(g.band)
    BY <1>1, <1>5, CurveRises DEF Warm, FAN_HYSTERESIS_C
  <2>2. up # g.band
    BY <1>1, <2>1, CurveRises
  <2>3. down \in Bands /\ up <= down
    BY <1>1, <1>5, <2>1, <2>2 DEF Bands
  <2>4. /\ after \in Gpu /\ Consistent(after)
        /\ after.band = down
    BY <1>1, <1>5, <2>3, BandSetIs
  <2>5. g.quiet = Cooldown
    BY <1>5, ConstantsAssumption DEF ConstantsAssumption, Consistent, CoolingIsQuiet, Gpu
  <2> QED
    BY <2>4, <2>5 DEF Earned
<1> QED
  BY <1>1, <1>2, <1>3, <1>4, <1>5 DEF Followed, Bands

\* So does the whole visit of the thread.
LEMMA UpdatedIs ==
    ASSUME NEW g \in Gpu, Consistent(g), NEW after \in Updated(g)
    PROVE  after \in Gpu /\ Consistent(after) /\ Earned(g, after)
<1>0. Curve # Driver
  BY ConstantsAssumption DEF ConstantsAssumption
<1>1. PICK r \in Retried(g) : after \in Controlled(r)
  BY DEF Updated
<1>2. CASE g.pending
  <2>1. g.band = None /\ g.cooling \in 0..Cooldown \cup {None} /\ r \in Restored(g)
    BY <1>1, <1>2 DEF Retried, Consistent, OnTheCurve, Gpu
  <2>2. r.band = None /\ after = r
    BY <1>1, <2>1 DEF Restored, InPart, Controlled, Gpu
  <2>3. r \in Gpu /\ r.promised = g.promised /\ r.cooling = g.cooling /\ r.quiet = g.quiet
    <3>1. CASE r = [g EXCEPT !.fans = Driver, !.pending = FALSE]
      BY <3>1 DEF Gpu
    <3>2. ASSUME NEW fans \in {g.fans, Mixed},
                 r = [[g EXCEPT !.pending = TRUE] EXCEPT !.fans = fans]
          PROVE  r \in Gpu /\ r.promised = g.promised /\ r.cooling = g.cooling
                 /\ r.quiet = g.quiet
      BY <3>2 DEF Gpu
    <3> QED
      BY <2>1, <3>1, <3>2 DEF Restored, InPart, Gpu
  <2>4. /\ r.fans = Driver \/ r.pending
        /\ g.promised \notin Nat /\ g.promised # Curve
    BY <1>2, <2>1 DEF Restored, InPart, Gpu, Consistent, OffTheCurve
  <2>5. Consistent(r)
    BY <2>2, <2>3, <2>4 DEF Consistent, OnTheCurve, OffTheCurve, CoolingIsQuiet
  <2> QED
    BY <2>2, <2>3, <2>4, <2>5 DEF Earned
<1>3. CASE ~g.pending
  <2>1. after \in Controlled(g)
    BY <1>1, <1>3 DEF Retried
  <2>2. CASE g.band = None
    BY <2>1, <2>2 DEF Controlled, Earned, Consistent, OffTheCurve
  <2>3. CASE after \in Fallback(g)
    BY <1>0, <2>3, FallbackIs DEF Earned
  <2>4. CASE g.band # None /\ \E temperature \in Readings : after \in Followed(g, temperature)
    BY <2>4, FollowedIs
  <2> QED
    BY <2>1, <2>2, <2>3, <2>4 DEF Controlled
<1> QED
  BY <1>2, <1>3

\* Time passes for what is quiet at least as fast as for what is cooling.
LEMMA LaterIs ==
    ASSUME NEW g \in Gpu, Consistent(g)
    PROVE  Later(g) \in Gpu /\ Consistent(Later(g)) /\ Later(g).band = g.band
           /\ Later(g).pending = g.pending
<1> DEFINE after == Later(g)
           cooling == IF g.cooling \in 0..Cooldown - 1 THEN g.cooling + 1 ELSE g.cooling
           quiet == IF g.quiet < Cooldown THEN g.quiet + 1 ELSE g.quiet
<1>1. /\ g.cooling \in 0..Cooldown \cup {None} /\ g.quiet \in 0..Cooldown
      /\ Cooldown \in Nat /\ None \notin Int
  BY ConstantsAssumption DEF ConstantsAssumption, Gpu
<1>2. /\ cooling \in 0..Cooldown \cup {None} /\ quiet \in 0..Cooldown
      /\ cooling # None => g.cooling # None /\ (g.cooling <= g.quiet => cooling <= quiet)
  BY <1>1
<1> HIDE DEF cooling, quiet
<1>3. after = [g EXCEPT !.cooling = cooling, !.quiet = quiet]
  BY DEF Later, cooling, quiet
<1>4. after \in Gpu
  BY <1>2, <1>3 DEF Gpu
<1>5. /\ after.fans = g.fans /\ after.band = g.band /\ after.pending = g.pending
      /\ after.promised = g.promised /\ after.reading = g.reading
      /\ after.cooling = cooling /\ after.quiet = quiet
  BY <1>3 DEF Gpu
<1> HIDE DEF after
<1>6. OnTheCurve(after) /\ OffTheCurve(after)
  BY <1>5 DEF Consistent, OnTheCurve, OffTheCurve
<1>7. CoolingIsQuiet(after)
  BY <1>2, <1>5 DEF Consistent, CoolingIsQuiet
<1> QED
  BY <1>4, <1>5, <1>6, <1>7 DEF Consistent, after

\* A new process knows nothing and has promised nothing.
LEMMA ForgottenIs ==
    ASSUME NEW g \in Gpu
    PROVE  Forgotten(g) \in Gpu /\ Consistent(Forgotten(g)) /\ Forgotten(g).band = None
           /\ ~Forgotten(g).pending
<1> DEFINE after == Forgotten(g)
           popped == Popped(g, None)
<1>1. popped \in Gpu /\ popped.band = None /\ popped.cooling = None /\ popped.promised = None
  BY PoppedIs
<1> HIDE DEF popped
<1>2. after = [popped EXCEPT !.pending = FALSE]
  BY DEF Forgotten, popped
<1>3. /\ after \in Gpu /\ after.band = None /\ after.cooling = None
      /\ after.promised = None /\ ~after.pending
  BY <1>1, <1>2 DEF Gpu
<1>4. OffTheCurve(after)
  BY <1>3, ConstantsAssumption DEF OffTheCurve, ConstantsAssumption
<1> QED
  BY <1>3, <1>4, OffIsConsistent

\* The shutdown resets a GPU, or is refused.
LEMMA ShutDownIs ==
    ASSUME NEW g \in Gpu, NEW after \in ShutDown(g)
    PROVE  /\ after \in Gpu /\ Consistent(after)
           /\ after.fans = Driver \/ after.promised = Refused
<1>1. CASE after = [Popped(g, Driver) EXCEPT !.fans = Driver, !.pending = FALSE]
  <2> DEFINE popped == Popped(g, Driver)
  <2>1. /\ popped \in Gpu /\ popped.band = None /\ popped.cooling = None
        /\ popped.promised = Driver
    BY PoppedIs
  <2> HIDE DEF popped
  <2>2. after = [popped EXCEPT !.fans = Driver, !.pending = FALSE]
    BY <1>1 DEF popped
  <2>3. /\ after \in Gpu /\ after.band = None /\ after.cooling = None
        /\ after.promised = Driver /\ after.fans = Driver
    BY <2>1, <2>2 DEF Gpu
  <2>4. OffTheCurve(after)
    BY <2>3, ConstantsAssumption DEF OffTheCurve, ConstantsAssumption
  <2> QED
    BY <2>3, <2>4, OffIsConsistent
<1>2. CASE after \in InPart(Popped(g, Refused))
  <2> DEFINE popped == Popped(g, Refused)
  <2>1. /\ popped \in Gpu /\ popped.band = None /\ popped.cooling = None
        /\ popped.promised = Refused
    BY PoppedIs
  <2> HIDE DEF popped
  <2>2. after \in InPart(popped)
    BY <1>2 DEF popped
  <2>3. /\ after \in Gpu /\ after.band = None /\ after.cooling = None
        /\ after.promised = Refused
    BY <2>1, <2>2 DEF InPart, Gpu
  <2>4. OffTheCurve(after)
    BY <2>3, ConstantsAssumption DEF OffTheCurve, ConstantsAssumption
  <2> QED
    BY <2>3, <2>4, OffIsConsistent
<1> QED
  BY <1>1, <1>2 DEF ShutDown

-----------------------------------------------------------------------------
(* Steps                                                                   *)

\* Requests keep types and invariant: whatever they leave pending has a thread.
LEMMA RequestsKeep ==
    ASSUME TypeOK, IInv, Requests
    PROVE  TypeOK' /\ IInv'
<1>1. /\ \A g \in Gpus : gpu[g] \in Gpu /\ Consistent(gpu[g])
      /\ phase = "up" /\ phase' = phase /\ left' = left
      /\ worker \in {"none", "waiting", "awake", "visiting", "ended"}
  BY DEF TypeOK, IInv, Requests, SetManual, SetAuto
<1>2. ASSUME NEW g \in Gpus, NEW after \in Gpu, Consistent(after),
             gpu' = [gpu EXCEPT ![g] = after],
             worker' \in {worker, Started},
             after.band # None \/ after.pending => worker' = Started
      PROVE  TypeOK' /\ IInv'
  <2>1. /\ gpu' \in [Gpus -> Gpu] /\ gpu'[g] = after
        /\ \A h \in Gpus : h # g => gpu'[h] = gpu[h]
    BY <1>2 DEF TypeOK
  <2>2. TypeOK'
    BY <1>1, <1>2, <2>1 DEF TypeOK, Started
  <2>3. \A h \in Gpus : Consistent(gpu'[h])
    BY <1>1, <1>2, <2>1
  <2>4. Attended'
    BY <1>1, <1>2, <2>1 DEF IInv, Attended, Started, EndedIsTold
  <2>5. VisitedIsReset' /\ EndedIsTold'
    BY <1>1, <1>2 DEF IInv, VisitedIsReset, EndedIsTold, Started
  <2> QED
    BY <2>2, <2>3, <2>4, <2>5 DEF IInv
<1>3. ASSUME NEW g \in Gpus, SetManual(g)
      PROVE  TypeOK' /\ IInv'
  <2>1. PICK speed \in Speeds :
          \E after \in {ManualSet(gpu[g], speed)} \cup WriteFails(gpu[g]) :
            /\ gpu' = [gpu EXCEPT ![g] = after]
            /\ worker' = IF after.pending THEN Started ELSE worker
    BY <1>3 DEF SetManual
  <2>2. PICK after \in {ManualSet(gpu[g], speed)} \cup WriteFails(gpu[g]) :
            /\ gpu' = [gpu EXCEPT ![g] = after]
            /\ worker' = IF after.pending THEN Started ELSE worker
    BY <2>1
  <2>3. after \in Gpu /\ Consistent(after) /\ after.band = None
    BY <1>1, ManualSetIs, WriteFailsIs, ConstantsAssumption DEF ConstantsAssumption
  <2> QED
    BY <1>2, <2>2, <2>3
<1>4. ASSUME NEW g \in Gpus, SetAuto(g)
      PROVE  TypeOK' /\ IInv'
  <2>1. CASE \E temperature \in Readings :
               gpu' = [gpu EXCEPT ![g] = AutoSet(gpu[g], temperature)] /\ worker' = Started
    BY <1>1, <1>2, <2>1, AutoSetIs
  <2>2. CASE \E after \in WriteFails(gpu[g]) :
               /\ gpu' = [gpu EXCEPT ![g] = after]
               /\ worker' = IF after.pending THEN Started ELSE worker
    <3>1. PICK after \in WriteFails(gpu[g]) :
            /\ gpu' = [gpu EXCEPT ![g] = after]
            /\ worker' = IF after.pending THEN Started ELSE worker
      BY <2>2
    <3>2. after \in Gpu /\ Consistent(after) /\ after.band = None
      BY <1>1, WriteFailsIs
    <3> QED
      BY <1>2, <3>1, <3>2
  <2> QED
    BY <1>4, <2>1, <2>2 DEF SetAuto
<1> QED
  BY <1>3, <1>4 DEF Requests

\* The thread keeps types and invariant, GPU by GPU.
LEMMA ThreadKeeps ==
    ASSUME TypeOK, IInv, Thread
    PROVE  TypeOK' /\ IInv'
<1>1. /\ \A g \in Gpus : gpu[g] \in Gpu /\ Consistent(gpu[g])
      /\ phase' = phase
      /\ worker \in {"waiting", "awake", "visiting"}
      /\ phase \notin {"resetting", "down"}
  BY DEF TypeOK, IInv, VisitedIsReset, Thread, Wake, Delay, Lock, Visit, Unlock, WorkerEnds
<1>2. CASE Wake \/ Delay
  <2>1. /\ gpu' = [g \in Gpus |-> Later(gpu[g])] /\ left' = left
        /\ worker' \in {"waiting", "awake", "visiting"}
    BY <1>2 DEF Wake, Delay
  <2>2. \A g \in Gpus : gpu'[g] \in Gpu /\ Consistent(gpu'[g])
    BY <1>1, <2>1, LaterIs
  <2>3. gpu' \in [Gpus -> Gpu]
    BY <2>1, <2>2
  <2> QED
    BY <1>1, <2>1, <2>2, <2>3 DEF TypeOK, IInv, Attended, EndedIsTold, VisitedIsReset
<1>3. CASE Lock \/ Unlock
  BY <1>1, <1>3 DEF Lock, Unlock, TypeOK, IInv, Attended, EndedIsTold, VisitedIsReset
<1>4. ASSUME NEW g \in Gpus, Visit(g)
      PROVE  TypeOK' /\ IInv'
  <2>1. PICK after \in Updated(gpu[g]) : gpu' = [gpu EXCEPT ![g] = after]
    BY <1>4 DEF Visit
  <2>2. after \in Gpu /\ Consistent(after)
    BY <1>1, UpdatedIs
  <2>3. /\ gpu' \in [Gpus -> Gpu]
        /\ \A h \in Gpus : Consistent(gpu'[h])
    BY <1>1, <2>1, <2>2 DEF TypeOK
  <2>4. worker' = "visiting" /\ left' \subseteq Gpus
    BY <1>4 DEF Visit, TypeOK
  <2> QED
    BY <1>1, <2>3, <2>4 DEF TypeOK, IInv, Attended, EndedIsTold, VisitedIsReset
<1>5. CASE WorkerEnds
  BY <1>1, <1>5 DEF WorkerEnds, TypeOK, IInv, Attended, EndedIsTold, VisitedIsReset
<1> QED
  BY <1>2, <1>3, <1>4, <1>5 DEF Thread

\* Shutdown, start and death of the process keep types and invariant.
LEMMA ProcessKeeps ==
    ASSUME TypeOK, IInv, Process
    PROVE  TypeOK' /\ IInv'
<1>1. \A g \in Gpus : gpu[g] \in Gpu /\ Consistent(gpu[g])
  BY DEF TypeOK, IInv
<1>2. CASE Shutdown
  BY <1>2 DEF Shutdown, TypeOK, IInv, Attended, EndedIsTold, VisitedIsReset
<1>3. CASE ResetBegin
  BY <1>3 DEF ResetBegin, TypeOK, IInv, Attended, EndedIsTold, VisitedIsReset
<1>4. ASSUME NEW g \in Gpus, Reset(g)
      PROVE  TypeOK' /\ IInv'
  <2>1. PICK after \in ShutDown(gpu[g]) : gpu' = [gpu EXCEPT ![g] = after]
    BY <1>4 DEF Reset
  <2>2. /\ after \in Gpu /\ Consistent(after)
        /\ after.fans = Driver \/ after.promised = Refused
    BY <1>1, ShutDownIs
  <2>3. /\ gpu' \in [Gpus -> Gpu] /\ gpu'[g] = after
        /\ \A h \in Gpus : h # g => gpu'[h] = gpu[h]
    BY <2>1, <2>2 DEF TypeOK
  <2>4. /\ phase = "resetting" /\ phase' = phase /\ worker' = worker
        /\ left' = left \ {g}
    BY <1>4 DEF Reset
  <2>5. TypeOK'
    BY <2>3, <2>4 DEF TypeOK
  <2>6. VisitedIsReset' /\ EndedIsTold'
    BY <2>2, <2>3, <2>4 DEF IInv, VisitedIsReset, EndedIsTold
  <2>7. (\A h \in Gpus : Consistent(gpu'[h])) /\ Attended'
    BY <1>1, <2>2, <2>3, <2>4 DEF Attended
  <2> QED
    BY <2>5, <2>6, <2>7 DEF IInv
<1>5. CASE ResetEnd
  BY <1>5 DEF ResetEnd, TypeOK, IInv, Attended, EndedIsTold, VisitedIsReset
<1>6. CASE Boot \/ Crash
  <2>1. /\ gpu' = [g \in Gpus |-> Forgotten(gpu[g])] /\ worker' = "none"
        /\ left' \in {left, {}} /\ phase' \in {"up", "killed"}
    BY <1>6 DEF Boot, Crash
  <2>2. \A g \in Gpus : /\ gpu'[g] \in Gpu /\ Consistent(gpu'[g])
                        /\ gpu'[g].band = None /\ ~gpu'[g].pending
    BY <1>1, <2>1, ForgottenIs
  <2>3. gpu' \in [Gpus -> Gpu]
    BY <2>1, <2>2
  <2> QED
    BY <2>1, <2>2, <2>3 DEF TypeOK, IInv, Attended, EndedIsTold, VisitedIsReset
<1> QED
  BY <1>2, <1>3, <1>4, <1>5, <1>6 DEF Process

\* Every step keeps types and invariant.
LEMMA StepKeeps ==
    ASSUME TypeOK, IInv, [Next]_vars
    PROVE  TypeOK' /\ IInv'
<1>1. CASE UNCHANGED vars
  BY <1>1 DEF vars, TypeOK, IInv, Attended, EndedIsTold, VisitedIsReset
<1> QED
  BY <1>1, RequestsKeep, ThreadKeeps, ProcessKeeps DEF Next

\* Types and invariant hold at the start.
LEMMA InitKeeps == Init => TypeOK /\ IInv
<1> SUFFICES ASSUME Init PROVE TypeOK /\ IInv
  OBVIOUS
<1> DEFINE g0 == [fans |-> Driver, band |-> None, cooling |-> None, pending |-> FALSE,
                  promised |-> None, reading |-> None, quiet |-> 0]
<1>1. g0 \in Gpu
  BY ConstantsAssumption DEF ConstantsAssumption, Gpu
<1>2. Consistent(g0)
  BY ConstantsAssumption
     DEF ConstantsAssumption, Consistent, OnTheCurve, OffTheCurve, CoolingIsQuiet
<1>3. g0.band = None /\ ~g0.pending
  OBVIOUS
<1>4. gpu = [g \in Gpus |-> g0] /\ worker = "none" /\ left = {} /\ phase = "up"
  BY DEF Init
<1> HIDE DEF g0
<1> QED
  BY <1>1, <1>2, <1>3, <1>4 DEF TypeOK, IInv, Attended, EndedIsTold, VisitedIsReset

-----------------------------------------------------------------------------
(* Theorems                                                                *)

\* Every variable keeps its type, for any GPUs, speeds and readings.
THEOREM TypeCorrect == Spec => []TypeOK
<1>1. TypeOK /\ IInv /\ [Next]_vars => (TypeOK /\ IInv)'
  BY StepKeeps
<1> QED
  BY InitKeeps, <1>1, PTL DEF Spec

\* The inductive invariant.
THEOREM Invariance == Spec => []IInv
<1>1. TypeOK /\ IInv /\ [Next]_vars => (TypeOK /\ IInv)'
  BY StepKeeps
<1> QED
  BY InitKeeps, <1>1, PTL DEF Spec

\* The hardware does what the user of a GPU was told, or a restore is pending.
THEOREM PromisesAreKept == Spec => []FansAsPromised
<1>1. ASSUME TypeOK, IInv PROVE FansAsPromised
  <2> SUFFICES ASSUME NEW g \in Gpus PROVE AsPromised(gpu[g])
    BY DEF FansAsPromised
  <2>1. /\ OnTheCurve(gpu[g]) /\ OffTheCurve(gpu[g])
        /\ Curve \notin Nat /\ Curve # Driver
    BY <1>1, ConstantsAssumption DEF IInv, Consistent, ConstantsAssumption
  <2> QED
    BY <2>1 DEF OnTheCurve, OffTheCurve, AsPromised
<1> QED
  BY <1>1, TypeCorrect, Invariance, PTL

\* Whatever needs the thread has it.
THEOREM ThreadAttends == Spec => []Attended
<1>1. IInv => Attended
  BY DEF IInv
<1> QED
  BY <1>1, Invariance, PTL

\* A GPU on the curve is cooled as its last reading demands, whatever the reading.
THEOREM ReadingsAreCooled == Spec => []FansCool
<1>1. ASSUME TypeOK, IInv PROVE FansCool
  <2> SUFFICES ASSUME NEW g \in Gpus, gpu[g].band # None PROVE Cooled(gpu[g])
    BY DEF FansCool, Cooled
  <2> DEFINE band == gpu[g].band
             reading == gpu[g].reading
  <2>1. /\ band \in Bands /\ reading \in Int /\ FanBand(reading) <= band
        /\ gpu[g].fans = Speed(band)
    BY <1>1, ConstantsAssumption
       DEF TypeOK, Gpu, IInv, Consistent, OnTheCurve, ConstantsAssumption
  <2> HIDE DEF band, reading
  <2>2. ASSUME NEW reached \in Bands, reading >= Threshold(reached)
        PROVE  Speed(band) >= FAN_CURVE[reached][2] \/ Speed(band) = MaxSpeed
    <3>1. FanBand(reading) \in Bands /\ ~(reached > FanBand(reading))
      BY <2>1, <2>2, FanBandIs, CurveRises
    <3>2. reached <= band
      BY <2>1, <3>1 DEF Bands
    <3>3. FAN_CURVE[reached][2] <= FAN_CURVE[band][2]
      BY <2>1, <3>2, CurveRises DEF Bands
    <3> QED
      BY <2>1, <3>3, SpeedIs, CurveRises
  <2> QED
    BY <2>1, <2>2, SpeedIs DEF Cooled, band, reading
<1> QED
  BY <1>1, TypeCorrect, Invariance, PTL

\* After a shutdown the driver has every fan that it could be given.
THEOREM DriverGetsTheFans == Spec => []ShutdownRestores
<1>1. IInv => ShutdownRestores
  BY DEF IInv, VisitedIsReset, ShutdownRestores
<1> QED
  BY <1>1, Invariance, PTL

\* The thread slows no fan before a whole cooldown, and by one band at a time.
THEOREM EveryStepIsEarned == Spec => StepsAreEarned
<1>1. ASSUME TypeOK, IInv, [Next]_vars, worker = "visiting", NEW g \in Gpus
      PROVE  Earned(gpu[g], gpu'[g])
  <2>1. CASE gpu' = gpu
    BY <1>1, <2>1, ConstantsAssumption
       DEF Earned, TypeOK, Gpu, Bands, IInv, Consistent, OffTheCurve
  <2>2. ASSUME NEW h \in Gpus, Visit(h) PROVE Earned(gpu[g], gpu'[g])
    <3>1. PICK after \in Updated(gpu[h]) : gpu' = [gpu EXCEPT ![h] = after]
      BY <2>2 DEF Visit
    <3>2. CASE g = h
      BY <1>1, <3>1, <3>2, UpdatedIs DEF TypeOK, IInv
    <3>3. CASE g # h
      BY <1>1, <3>1, <3>3 DEF Earned, TypeOK, Gpu, Bands, IInv, Consistent, OffTheCurve
    <3> QED
      BY <3>2, <3>3
  <2>3. CASE Crash
    <3>1. gpu'[g].promised = None
      BY <1>1, <2>3, PoppedIs DEF Crash, Forgotten, TypeOK, Gpu
    <3> QED
      BY <3>1, ConstantsAssumption DEF ConstantsAssumption, Earned
  <2>4. CASE Boot
    <3>1. gpu'[g].promised = None
      BY <1>1, <2>4, PoppedIs DEF Boot, Forgotten, TypeOK, Gpu
    <3> QED
      BY <3>1, ConstantsAssumption DEF ConstantsAssumption, Earned
  <2>5. \A h \in Gpus : ~Reset(h)
    BY <1>1 DEF IInv, VisitedIsReset, Reset
  <2> QED
    BY <1>1, <2>1, <2>2, <2>3, <2>4, <2>5
       DEF Next, Requests, SetManual, SetAuto, LockFree, Thread, Wake, Delay, Lock, Unlock,
           WorkerEnds, Process, Shutdown, ResetBegin, ResetEnd, vars
<1>2. TypeOK /\ IInv /\ [Next]_vars =>
        [worker = "visiting" => \A g \in Gpus : Earned(gpu[g], gpu'[g])]_vars
  BY <1>1
<1> QED
  BY <1>2, TypeCorrect, Invariance, PTL DEF Spec, StepsAreEarned

-----------------------------------------------------------------------------
(* The thread keeps off, and ends                                          *)

\* What a tick may do to a GPU: nothing, if its user has set a speed or the driver
\* has it already; nothing to what was promised, but that a curve which cannot be
\* followed is given up for the driver.
KeepsOff(g, after) ==
    /\ g.promised \in Nat \/ (g.promised = Driver /\ ~g.pending) => after = g
    /\ after.promised = g.promised \/ (g.promised = Curve /\ after.promised = Driver)

\* "A stale tick cannot undo Manual": whatever requests came before a tick has the
\* lock, it leaves alone what they have settled.
TicksKeepOff ==
    [][worker = "visiting" /\ phase' = phase => \A g \in Gpus : KeepsOff(gpu[g], gpu'[g])]_vars

\* The steps of the thread that are left once it is told to end.
ThreadLeft(place) ==
    CASE place = "awake" -> 3 [] place = "visiting" -> 2 [] place = "waiting" -> 1
      [] OTHER -> 0

\* Once the shutdown has begun, the thread goes through at most one more tick, of
\* which each step has one GPU less to visit, and after its end nothing but the
\* resets touches a GPU.
ThreadWindsUp ==
    [][phase # "up" /\ phase' = phase =>
        /\ worker' = worker \/ ThreadLeft(worker') < ThreadLeft(worker)
        /\ worker' # worker \/ left' = left \/ \E g \in left : left' = left \ {g}
        /\ worker \in {"none", "ended"} /\ gpu' # gpu => phase = "resetting"]_vars

\* A GPU that follows the curve is still promised that, or the driver.
LEMMA FollowedPromises ==
    ASSUME NEW g \in Gpu, NEW temperature \in Readings, NEW after \in Followed(g, temperature)
    PROVE  after.promised \in {g.promised, Driver}
<1>1. CASE after \in WriteFails(g)
  BY <1>1, WriteFailsIs
<1>2. ASSUME NEW band, after = BandSet(g, band, temperature) PROVE after.promised = g.promised
  BY <1>2 DEF BandSet, Gpu
<1>3. CASE after \in {WarmReading(g, temperature), CoolReading(g, temperature)}
  BY <1>3 DEF WarmReading, CoolReading, Gpu
<1> QED
  BY <1>1, <1>2, <1>3 DEF Followed

\* One visit of a tick.
LEMMA UpdatedKeepsOff ==
    ASSUME NEW g \in Gpu, Consistent(g), NEW after \in Updated(g)
    PROVE  KeepsOff(g, after)
<1>0. Curve # Driver /\ Curve \notin Nat /\ Driver \notin Nat
  BY ConstantsAssumption DEF ConstantsAssumption
<1>1. PICK r \in Retried(g) : after \in Controlled(r)
  BY DEF Updated
<1>2. CASE g.pending
  <2>1. g.band = None /\ g.promised \notin Nat /\ r \in Restored(g)
    BY <1>1, <1>2 DEF Retried, Consistent, OnTheCurve, OffTheCurve
  <2>2. after = r /\ r.promised = g.promised
    BY <1>1, <2>1 DEF Restored, InPart, Controlled, Gpu
  <2> QED
    BY <1>2, <2>1, <2>2 DEF KeepsOff
<1>3. CASE ~g.pending /\ g.band = None
  <2>1. after = g
    BY <1>1, <1>3 DEF Retried, Controlled
  <2> QED
    BY <2>1 DEF KeepsOff
<1>4. CASE ~g.pending /\ g.band # None
  <2>1. g.promised = Curve
    BY <1>4 DEF Consistent, OnTheCurve
  <2>2. after \in Fallback(g) \/ \E temperature \in Readings : after \in Followed(g, temperature)
    BY <1>1, <1>4 DEF Retried, Controlled
  <2>3. after.promised \in {Curve, Driver}
    BY <2>1, <2>2, FallbackIs, FollowedPromises
  <2> QED
    BY <1>0, <2>1, <2>3 DEF KeepsOff
<1> QED
  BY <1>2, <1>3, <1>4

\* A tick never undoes what a request has settled.
THEOREM TicksUndoNothing == Spec => TicksKeepOff
<1>1. ASSUME TypeOK, IInv, [Next]_vars, worker = "visiting", phase' = phase, NEW g \in Gpus
      PROVE  KeepsOff(gpu[g], gpu'[g])
  <2>1. CASE gpu' = gpu
    BY <2>1 DEF KeepsOff
  <2>2. ASSUME NEW h \in Gpus, Visit(h) PROVE KeepsOff(gpu[g], gpu'[g])
    <3>1. PICK after \in Updated(gpu[h]) : gpu' = [gpu EXCEPT ![h] = after]
      BY <2>2 DEF Visit
    <3>2. CASE g = h
      BY <1>1, <3>1, <3>2, UpdatedKeepsOff DEF TypeOK, IInv
    <3>3. CASE g # h
      BY <1>1, <3>1, <3>3 DEF KeepsOff, TypeOK
    <3> QED
      BY <3>2, <3>3
  <2>3. ~Crash /\ ~Boot /\ \A h \in Gpus : ~Reset(h)
    BY <1>1 DEF Crash, Boot, IInv, VisitedIsReset, Reset
  <2> QED
    BY <1>1, <2>1, <2>2, <2>3
       DEF Next, Requests, SetManual, SetAuto, LockFree, Thread, Wake, Delay, Lock, Unlock,
           WorkerEnds, Process, Shutdown, ResetBegin, ResetEnd, vars
<1>2. TypeOK /\ IInv /\ [Next]_vars =>
        [worker = "visiting" /\ phase' = phase =>
            \A g \in Gpus : KeepsOff(gpu[g], gpu'[g])]_vars
  BY <1>1
<1> QED
  BY <1>2, TypeCorrect, Invariance, PTL DEF Spec, TicksKeepOff

\* A shutdown waits for one tick at most, and has the fans for itself afterwards.
THEOREM ThreadEnds == Spec => ThreadWindsUp
<1>1. ASSUME TypeOK, IInv, Next, phase # "up", phase' = phase
      PROVE  /\ worker' = worker \/ ThreadLeft(worker') < ThreadLeft(worker)
             /\ worker' # worker \/ left' = left \/ \E g \in left : left' = left \ {g}
             /\ worker \in {"none", "ended"} /\ gpu' # gpu => phase = "resetting"
  <2>1. ~Requests /\ ~Wake
    BY <1>1 DEF Requests, SetManual, SetAuto, Wake
  <2>2. CASE Thread
    BY <1>1, <2>1, <2>2 DEF Thread, Delay, Lock, Visit, Unlock, WorkerEnds, ThreadLeft
  <2>3. CASE Process
    BY <1>1, <2>3 DEF Process, Shutdown, ResetBegin, Reset, ResetEnd, Boot, Crash
  <2> QED
    BY <1>1, <2>1, <2>2, <2>3 DEF Next
<1>2. TypeOK /\ IInv /\ [Next]_vars =>
        [phase # "up" /\ phase' = phase =>
            /\ worker' = worker \/ ThreadLeft(worker') < ThreadLeft(worker)
            /\ worker' # worker \/ left' = left \/ \E g \in left : left' = left \ {g}
            /\ worker \in {"none", "ended"} /\ gpu' # gpu => phase = "resetting"]_vars
  BY <1>1
<1> QED
  BY <1>2, TypeCorrect, Invariance, PTL DEF Spec, ThreadWindsUp
=============================================================================
