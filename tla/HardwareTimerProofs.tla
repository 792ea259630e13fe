-------------------------- MODULE HardwareTimerProofs -------------------------
(***************************************************************************)
(* hardware_timer: reads of the timer are right, and a hardware alarm is   *)
(* reliable, for any width of the timer's words, any callers and any time  *)
(* that passes between two accesses to its registers.                      *)
(***************************************************************************)
EXTENDS HardwareAlarm, TimerReads, TLAPS

----------------------------------------------------------------------------
(* High and low words.                                                     *)

LEMMA TimesMonotone ==
    ASSUME NEW a \in Int, NEW b \in Int, NEW m \in Nat, a <= b
    PROVE  a * m \in Int /\ b * m \in Int /\ a * m <= b * m
OBVIOUS

LEMMA Words ==
    ASSUME NEW t \in Nat
    PROVE  /\ Hi(t) \in Nat /\ Low(t) \in 0 .. LowMod - 1
           /\ Hi(t) * LowMod \in Nat /\ t = Hi(t) * LowMod + Low(t)
BY TimerAssumption DEF Hi, Low

LEMMA NextHi ==
    ASSUME NEW t \in Nat
    PROVE  (Hi(t) + 1) * LowMod = Hi(t) * LowMod + LowMod
BY Words, TimerAssumption

(* A time with a smaller high word is earlier.                             *)
LEMMA EarlierByHi ==
    ASSUME NEW t \in Nat, NEW u \in Nat, Hi(t) < Hi(u)
    PROVE  t < u
<1>1. Hi(t) + 1 \in Int /\ Hi(u) \in Int /\ Hi(t) + 1 <= Hi(u)
  BY Words
<1>2. (Hi(t) + 1) * LowMod <= Hi(u) * LowMod
  BY <1>1, TimesMonotone, TimerAssumption
<1> QED  BY <1>2, NextHi, Words, TimerAssumption

(* Two times less than a wrap apart have different low words.              *)
LEMMA LowWordsDiffer ==
    ASSUME NEW t \in Nat, NEW u \in Nat, t < u, u - t < LowMod
    PROVE  Low(t) # Low(u)
<1> SUFFICES ASSUME Low(t) = Low(u)
             PROVE  FALSE
  OBVIOUS
<1>1. CASE Hi(u) <= Hi(t)
  <2>1. Hi(u) * LowMod <= Hi(t) * LowMod
    BY <1>1, Words, TimesMonotone, TimerAssumption
  <2> QED  BY <2>1, Words, TimerAssumption
<1>2. CASE Hi(t) + 1 <= Hi(u)
  <2>1. (Hi(t) + 1) * LowMod <= Hi(u) * LowMod
    BY <1>2, Words, TimesMonotone, TimerAssumption
  <2> QED  BY <2>1, NextHi, Words, TimerAssumption
<1> QED  BY <1>1, <1>2, Words

LEMMA HiGrows ==
    ASSUME NEW t \in Nat, NEW u \in Nat, t <= u
    PROVE  Hi(t) <= Hi(u)
<1> SUFFICES ASSUME Hi(u) + 1 <= Hi(t) PROVE FALSE
  BY Words
<1>1. (Hi(u) + 1) * LowMod <= Hi(t) * LowMod
  BY Words, TimesMonotone, TimerAssumption
<1>2. (Hi(u) + 1) * LowMod = Hi(u) * LowMod + LowMod
  BY Words, TimerAssumption
<1> QED  BY <1>1, <1>2, Words, TimerAssumption

LEMMA HiOfNext ==
    ASSUME NEW t \in Nat
    PROVE  t + 1 \in Nat /\ Hi(t) <= Hi(t + 1) /\ Hi(t + 1) \in Nat
<1> DEFINE u == t + 1
<1>1. u \in Nat /\ t <= u
  OBVIOUS
<1> HIDE DEF u
<1>2. Hi(t) <= Hi(u) /\ Hi(u) \in Nat
  BY <1>1, HiGrows, Words
<1> QED  BY <1>1, <1>2 DEF u

(* Comparing words, the high ones first, compares times.                   *)
LEMMA WordsCompare ==
    ASSUME NEW t \in Nat, NEW u \in Nat,
           Hi(t) < Hi(u) \/ (Hi(t) <= Hi(u) /\ Low(t) <= Low(u))
    PROVE  t <= u
<1>1. CASE Hi(t) + 1 <= Hi(u)
  <2>1. (Hi(t) + 1) * LowMod <= Hi(u) * LowMod
    BY <1>1, Words, TimesMonotone, TimerAssumption
  <2>2. (Hi(t) + 1) * LowMod = Hi(t) * LowMod + LowMod
    BY Words, TimerAssumption
  <2> QED  BY <2>1, <2>2, Words, TimerAssumption
<1>2. CASE Hi(t) <= Hi(u) /\ Low(t) <= Low(u)
  <2>1. Hi(t) * LowMod <= Hi(u) * LowMod
    BY <1>2, Words, TimesMonotone, TimerAssumption
  <2> QED  BY <2>1, <1>2, Words
<1> QED  BY <1>1, <1>2, Words

LEMMA RemainderOnce ==
    ASSUME NEW d \in Nat, d < 2 * LowMod
    PROVE  Low(d) = IF d < LowMod THEN d ELSE d - LowMod
<1>1. /\ Hi(d) \in Nat /\ Low(d) \in 0 .. LowMod - 1
      /\ Hi(d) * LowMod \in Nat /\ d = Hi(d) * LowMod + Low(d)
  BY Words
<1>2. 2 * LowMod \in Nat /\ 1 * LowMod = LowMod /\ 0 * LowMod = 0
  BY TimerAssumption
<1>3. 2 <= Hi(d) => 2 * LowMod <= Hi(d) * LowMod
  BY <1>1, TimesMonotone, TimerAssumption
<1>4. CASE Hi(d) = 0
  <2>1. d = Low(d)
    BY <1>1, <1>2, <1>4
  <2> QED  BY <2>1, <1>1, TimerAssumption
<1>5. CASE Hi(d) = 1
  <2>1. d = LowMod + Low(d)
    BY <1>1, <1>2, <1>5
  <2> QED  BY <2>1, <1>1, TimerAssumption
<1> QED  BY <1>1, <1>2, <1>3, <1>4, <1>5, TimerAssumption

(* The difference of two low words, modulo their size, is at most the time *)
(* between them.                                                           *)
LEMMA LowDifference ==
    ASSUME NEW t \in Nat, NEW u \in Nat, t <= u
    PROVE  t + Low(Low(u) + LowMod - Low(t)) <= u
<1> DEFINE d == Low(u) + LowMod - Low(t)
<1>0. /\ LowMod \in Nat \ {0}
      /\ Low(u) \in 0 .. LowMod - 1 /\ Low(t) \in 0 .. LowMod - 1
  BY Words, TimerAssumption
<1>d. d \in Nat /\ d < 2 * LowMod
  BY <1>0
<1>r. Low(d) = IF d < LowMod THEN d ELSE d - LowMod
  <2> HIDE DEF d
  <2> QED  BY <1>d, RemainderOnce
<1>h. Hi(t) <= Hi(u) /\ Hi(t) \in Int /\ Hi(u) \in Int
  BY HiGrows, Words
<1>1. CASE Low(t) <= Low(u)
  <2>1. Low(d) = Low(u) - Low(t)
    BY <1>0, <1>1, <1>r
  <2>2. Hi(t) * LowMod <= Hi(u) * LowMod
    BY <1>0, <1>h, TimesMonotone
  <2> QED  BY <2>1, <2>2, <1>0, Words
<1>2. CASE Low(u) < Low(t)
  <2>1. Low(d) = d
    BY <1>0, <1>2, <1>r
  <2>2. Hi(t) + 1 <= Hi(u)
    <3>1. Hi(t) # Hi(u)
      <4> SUFFICES ASSUME Hi(t) = Hi(u) PROVE FALSE
        OBVIOUS
      <4>1. t = Hi(t) * LowMod + Low(t) /\ u = Hi(t) * LowMod + Low(u)
        BY Words
      <4> QED  BY <4>1, <1>0, <1>2, Words
    <3> QED  BY <3>1, <1>h
  <2>3. (Hi(t) + 1) * LowMod <= Hi(u) * LowMod
    BY <2>2, <1>0, Words, TimesMonotone
  <2>4. (Hi(t) + 1) * LowMod = Hi(t) * LowMod + LowMod
    BY <1>0, Words
  <2> QED  BY <2>1, <2>3, <2>4, <1>0, Words
<1> QED  BY <1>0, <1>1, <1>2

----------------------------------------------------------------------------
(* Reading the timer.                                                      *)

LEMMA ReadsInitially == ReadsInit => ReadsInv
BY Words, TimerAssumption
   DEF ReadsInit, ReadsInv, TimeIsOfTheCall, ReadsTypeOK, WaitsLongEnough, HighOfTheCall, LoopsSound

(* The time read is one of the call: the high word did not change, so it   *)
(* is also that of the time when the low word was read.                    *)
LEMMA TimeReadKept ==
    ASSUME ReadsInv, RereadHi
    PROVE  reader' = "read" => began <= TimeRead' /\ TimeRead' <= time
<1> USE DEF ReadsInv, TimeIsOfTheCall, ReadsTypeOK, RereadHi, ReadHi
<1> SUFFICES ASSUME reader' = "read"
             PROVE  began <= TimeRead' /\ TimeRead' <= time
  OBVIOUS
<1>1. Hi(time) = hi /\ hi' = hi /\ lo' = lo
  OBVIOUS
<1>t. PICK t \in began .. time : Hi(t) = hi /\ \E u \in t .. time : Low(u) = lo
  BY DEF HighOfTheCall
<1>2. PICK u \in t .. time : Low(u) = lo
  BY <1>t
<1>3. t \in Nat /\ u \in Nat /\ time \in Nat /\ t <= u /\ u <= time /\ began <= u
  BY <1>t, <1>2, TimerAssumption
<1>4. Hi(u) = hi
  BY <1>1, <1>t, <1>3, HiGrows, Words
<1>5. u = hi * LowMod + lo
  BY <1>2, <1>3, <1>4, Words
<1> QED  BY <1>1, <1>3, <1>5 DEF TimeRead

LEMMA UntilKept ==
    ASSUME ReadsInv, UntilTest, reader' = "waited"
    PROVE  until <= time
<1>1. /\ time \in Nat /\ until \in Nat
      /\ Hi(until) <= hi /\ hi <= Hi(time) /\ hi \in Nat
      /\ ~(hi = Hi(until) /\ Low(time) < Low(until))
  BY TimerAssumption
     DEF ReadsInv, TimeIsOfTheCall, ReadsTypeOK, LoopsSound, UntilTest, ReadLo
<1>2. /\ Hi(until) \in Nat /\ Hi(time) \in Nat
      /\ Low(until) \in Int /\ Low(time) \in Int
  BY <1>1, Words, TimerAssumption
<1> QED  BY <1>1, <1>2, WordsCompare

LEMMA DelayKept ==
    ASSUME ReadsInv, DelayTest, reader' = "waited"
    PROVE  began + until <= time
<1>1. /\ time \in Nat /\ until \in Nat /\ began \in Nat /\ reader = "delay"
      /\ ~(Low(Low(time) + LowMod - lo) < until)
  BY TimerAssumption DEF ReadsInv, TimeIsOfTheCall, ReadsTypeOK, DelayTest
<1>2. PICK t \in began .. time : Low(t) = lo
  BY <1>1 DEF ReadsInv, LoopsSound
<1>3. t \in Nat /\ began <= t /\ t <= time
  BY <1>1, <1>2
<1>4. t + Low(Low(time) + LowMod - lo) <= time
  BY <1>1, <1>2, <1>3, LowDifference
<1>5. Low(time) + LowMod - lo \in Nat
  <2>1. Low(time) \in 0 .. LowMod - 1 /\ Low(t) \in 0 .. LowMod - 1
    BY <1>1, <1>3, Words
  <2> QED  BY <2>1, <1>2, TimerAssumption
<1>6. Low(Low(time) + LowMod - lo) \in Nat
  BY <1>5, Words, TimerAssumption
<1> QED  BY <1>1, <1>3, <1>4, <1>6

(* Every step keeps the types, and what has been read stays true.          *)
LEMMA ReadsInductive == ReadsInv /\ [ReadsNext]_reads_vars => ReadsInv'
<1> SUFFICES ASSUME ReadsInv, [ReadsNext]_reads_vars PROVE ReadsInv'
  OBVIOUS
<1>t. /\ time \in Nat /\ began \in Nat /\ began <= time /\ time <= MaxTime
      /\ hi \in Nat /\ hi <= Hi(MaxTime) /\ lo \in 0 .. LowMod - 1
      /\ until \in Nat /\ MaxTime \in Nat /\ LowMod \in Nat \ {0}
  BY Words, TimerAssumption DEF ReadsInv, TimeIsOfTheCall, ReadsTypeOK
<1>h. /\ Hi(time) \in Nat /\ Hi(time) <= Hi(MaxTime)
      /\ Low(time) \in 0 .. LowMod - 1 /\ Hi(MaxTime) \in Nat
      /\ Hi(until) \in Nat
  BY <1>t, HiGrows, Words
<1>r. reader = "read" => TimeRead \in Nat
  BY <1>t DEF TimeRead
<1> USE <1>t, <1>h
    DEF ReadsInv, TimeIsOfTheCall, ReadsTypeOK, WaitsLongEnough, HighOfTheCall,
        LoopsSound, TimeRead
<1>1. CASE TimePasses
  <2>1. time + 1 \in Nat /\ Hi(time) <= Hi(time + 1) /\ Hi(time + 1) \in Nat
    BY <1>t, HiOfNext
  <2>2. time' = time + 1
    BY <1>1 DEF TimePasses, Advances
  <2> QED  BY <1>1, <2>1, <2>2 DEF TimePasses, Advances, locals
<1>2. CASE CallTime
  BY <1>2 DEF CallTime, Enter
<1>3. CASE FirstHi
  BY <1>3 DEF FirstHi, ReadHi
<1>4. CASE TimeLo
  BY <1>4 DEF TimeLo, ReadLo
<1>5. CASE RereadHi
  BY <1>5, TimeReadKept DEF RereadHi, ReadHi
<1>6. CASE TimeReturns
  BY <1>6 DEF TimeReturns
<1>7. CASE CallUntil
  BY <1>7, TimerAssumption DEF CallUntil, Enter
<1>8. CASE UntilHi
  <2>1. /\ hi' = Hi(time) /\ reader' \in {"until_hi", "until_lo"}
        /\ reader' = "until_lo" => Hi(until) <= hi'
        /\ UNCHANGED <<time, call, lo, until, began>>
    BY <1>8 DEF UntilHi, ReadHi
  <2>2. call # "busy_wait_us_32"
    BY <1>8 DEF UntilHi, ReadHi
  <2> QED  BY <2>1, <2>2
<1>9. CASE UntilTest
  <2>1. reader' = "waited" => until <= time
    BY <1>9, UntilKept
  <2> QED  BY <1>9, <2>1 DEF UntilTest, ReadLo
<1>10. CASE UntilReread
  BY <1>10 DEF UntilReread, ReadHi
<1>11. CASE CallDelay
  BY <1>11, TimerReadsAssumption DEF CallDelay, Enter
<1>12. CASE Start
  BY <1>12 DEF Start, ReadLo
<1>13. CASE DelayTest
  BY <1>13, DelayKept DEF DelayTest
<1>14. CASE DelayFromTime
  BY <1>14, <1>r DEF DelayFromTime
<1>15. CASE WaitReturns
  BY <1>15 DEF WaitReturns
<1>16. CASE UNCHANGED reads_vars
  BY <1>16 DEF reads_vars, locals
<1> QED
  BY <1>1, <1>2, <1>3, <1>4, <1>5, <1>6, <1>7, <1>8, <1>9, <1>10, <1>11, <1>12,
     <1>13, <1>14, <1>15, <1>16 DEF ReadsNext

(* In every reachable state, for any width of a word.                      *)
THEOREM ReadsInvariantHolds == ReadsSpec => []ReadsInv
BY ReadsInitially, ReadsInductive, PTL DEF ReadsSpec

(* time_us_64 never returns a time the timer has not had during the call,  *)
(* though it reads two words of a running counter (timer.c 41-57).         *)
THEOREM TimeReadIsOfTheCall == ReadsSpec => []TimeIsOfTheCall
BY ReadsInvariantHolds, PTL DEF ReadsInv

(* No busy wait returns early (timer.c 61-106).                            *)
THEOREM WaitsAreLongEnough == ReadsSpec => []WaitsLongEnough
BY ReadsInvariantHolds, PTL DEF ReadsInv
----------------------------------------------------------------------------
(* A hardware alarm: its inductive invariant.                              *)

InSection(c) == pc[c] \in {"write", "check", "race"}

Types ==
    /\ TypeOK
    /\ \A c \in Clients : pc[c] = "set" \/ InSection(c) => target[c] \in Targets

(* The same, in three parts.                                               *)
FlagsOfType ==
    /\ armed \in BOOLEAN /\ intr \in BOOLEAN /\ intf \in BOOLEAN /\ nvic \in BOOLEAN
    /\ enabled \in BOOLEAN /\ callback \in BOOLEAN /\ pending \in BOOLEAN
    /\ forced \in BOOLEAN /\ overwritten \in BOOLEAN /\ early \in BOOLEAN

ValuesOfType ==
    /\ time \in 0 .. MaxTime /\ alarm \in 0 .. LowMod - 1
    /\ target_hi \in Nat /\ want \in Targets \cup {None}
    /\ lag \in 0 .. Slack
    /\ pc \in [Clients -> {"idle", "set", "write", "check", "race", "force"}]
    /\ hpc \in {"off", "entered", "cleared", "callback", "return"}
    /\ target \in [Clients -> Nat] /\ old \in [Clients -> BOOLEAN]
    /\ \A c \in Clients : pc[c] = "set" \/ InSection(c) => target[c] \in Targets

LockKept ==
    /\ want # None => pending
    /\ \A c \in Clients : InSection(c) <=> lock = c
    /\ hpc = "cleared" <=> lock = "irq"

LEMMA TypesInParts == Types <=> FlagsOfType /\ ValuesOfType /\ LockKept
BY DEF Types, TypeOK, FlagsOfType, ValuesOfType, LockKept, InSection

(* What a caller that has written the comparator may rely on, and what is  *)
(* known when nothing was pending before it came.                          *)
Written ==
    \A c \in Clients :
        /\ pc[c] \in {"check", "race"} =>
              alarm = Low(target[c]) /\ target_hi = Hi(target[c]) /\ (armed \/ intr)
        /\ InSection(c) => pending
        /\ InSection(c) /\ ~old[c] => want = None /\ ~forced

(* Nobody has touched the registers since the target was accepted.         *)
Kept == want # None /\ ~overwritten /\ lock \in {None, "irq"}

WantIsSet == Kept => alarm = Low(want) /\ target_hi = Hi(want)

(* Covered, without the pending bit of the processor, which irq_set_enabled*)
(* may clear.                                                              *)
WantIsCovered ==
    Kept /\ lock = None => intr \/ hpc = "entered" \/ (armed /\ time < want)

ForceIsPending == forced => pending

ForceIsCovered ==
    forced /\ lock = None => intr \/ intf \/ hpc = "entered" \/ Forcing \/ armed

(* An interrupt that has no excuse comes when its target has been reached. *)
ComesInTime(t) ==
    /\ ~Forcing /\ t - time < LowMod
    /\ Coming \/ hpc = "cleared" => t <= time

WantIsInTime == Kept /\ ~forced /\ ~early => ComesInTime(want)

TargetIsInTime ==
    \A c \in Clients : pc[c] \in {"check", "race"} /\ ~early => ComesInTime(target[c])

IInv ==
    /\ Types /\ Written /\ WantIsSet /\ WantIsCovered
    /\ ForceIsPending /\ ForceIsCovered /\ WantIsInTime /\ TargetIsInTime

----------------------------------------------------------------------------
(* The lock.                                                               *)

(* One caller is in the section, and then the handler is not.              *)
LEMMA SectionIsAlone ==
    ASSUME Types, NEW c \in Clients, InSection(c)
    PROVE  /\ lock = c /\ lock # None /\ lock # "irq" /\ hpc # "cleared"
           /\ \A d \in Clients : InSection(d) => d = c
BY HardwareAlarmAssumption DEF Types, TypeOK, InSection

LEMMA NobodyInSection ==
    ASSUME Types, lock \in {None, "irq"}
    PROVE  \A c \in Clients : ~InSection(c)
BY HardwareAlarmAssumption DEF Types, TypeOK, InSection

----------------------------------------------------------------------------
(* What each step keeps.                                                   *)

LEMMA FlagsKept ==
    ASSUME IInv, Next
    PROVE  FlagsOfType'
<1> USE HardwareAlarmAssumption, TimerAssumption DEF IInv, FlagsOfType, Types, TypeOK, regs, soft, history
<1>1. CASE Tick
  BY <1>1 DEF Tick, Advances
<1>2. CASE HandlerEnter
  BY <1>2 DEF HandlerEnter
<1>3. CASE HandlerLock
  BY <1>3 DEF HandlerLock, Lock
<1>4. CASE HandlerFires
  BY <1>4 DEF HandlerFires, Unlock, Settled
<1>5. CASE HandlerRearms
  BY <1>5 DEF HandlerRearms, Unlock, WriteAlarm
<1>6. CASE HandlerIgnores
  BY <1>6 DEF HandlerIgnores, Unlock
<1>7. CASE HandlerReturns
  BY <1>7 DEF HandlerReturns
<1>8. ASSUME NEW c \in Clients, SetTarget(c)
      PROVE  FlagsOfType'
  BY <1>8 DEF SetTarget, Goto
<1>9. ASSUME NEW c \in Clients, SetLocks(c)
      PROVE  FlagsOfType'
  BY <1>9 DEF SetLocks, Lock, Goto
<1>10. ASSUME NEW c \in Clients, SetWrites(c)
      PROVE  FlagsOfType'
  BY <1>10 DEF SetWrites, WriteAlarm, Goto
<1>11. ASSUME NEW c \in Clients, SetSeesFired(c)
      PROVE  FlagsOfType'
  BY <1>11 DEF SetSeesFired, Unlock, SetReturns, Goto
<1>12. ASSUME NEW c \in Clients, SetSeesArmed(c)
      PROVE  FlagsOfType'
  BY <1>12 DEF SetSeesArmed, Goto
<1>13. ASSUME NEW c \in Clients, SetDone(c)
      PROVE  FlagsOfType'
  BY <1>13 DEF SetDone, Unlock, SetReturns, Goto
<1>14. ASSUME NEW c \in Clients, SetMissed(c)
      PROVE  FlagsOfType'
  BY <1>14 DEF SetMissed, Unlock, SetReturns, Goto
<1>15. ASSUME NEW c \in Clients, SetMissedPending(c)
      PROVE  FlagsOfType'
  BY <1>15 DEF SetMissedPending, Unlock, SetReturns, Goto
<1>16. ASSUME NEW c \in Clients, Cancel(c)
      PROVE  FlagsOfType'
  BY <1>16 DEF Cancel, Settled
<1>17. ASSUME NEW c \in Clients, ForceIrq(c)
      PROVE  FlagsOfType'
  BY <1>17 DEF ForceIrq, Goto
<1>18. ASSUME NEW c \in Clients, ForceSetsBit(c)
      PROVE  FlagsOfType'
  BY <1>18 DEF ForceSetsBit, Goto
<1>19. ASSUME NEW c \in Clients, SetCallback(c)
      PROVE  FlagsOfType'
  BY <1>19 DEF SetCallback
<1>20. ASSUME NEW c \in Clients, RemoveCallback(c)
      PROVE  FlagsOfType'
  BY <1>20 DEF RemoveCallback, Settled
<1> QED
  BY <1>1, <1>2, <1>3, <1>4, <1>5, <1>6, <1>7, <1>8, <1>9, <1>10, <1>11, <1>12, <1>13, <1>14, <1>15, <1>16, <1>17, <1>18, <1>19, <1>20
  DEF Next, Handler, SetTargetStep

LEMMA ValuesKept ==
    ASSUME IInv, Next
    PROVE  ValuesOfType'
<1> USE HardwareAlarmAssumption, TimerAssumption DEF IInv, ValuesOfType, Types, TypeOK, InSection, regs, soft, history
<1>1. CASE Tick
  BY <1>1 DEF Tick, Advances
<1>2. CASE HandlerEnter
  BY <1>2 DEF HandlerEnter
<1>3. CASE HandlerLock
  BY <1>3 DEF HandlerLock, Lock
<1>4. CASE HandlerFires
  BY <1>4 DEF HandlerFires, Unlock, Settled
<1>5. CASE HandlerRearms
  BY <1>5 DEF HandlerRearms, Unlock, WriteAlarm
<1>6. CASE HandlerIgnores
  BY <1>6 DEF HandlerIgnores, Unlock
<1>7. CASE HandlerReturns
  BY <1>7 DEF HandlerReturns
<1>8. ASSUME NEW c \in Clients, SetTarget(c)
      PROVE  ValuesOfType'
  BY <1>8 DEF SetTarget, Goto
<1>9. ASSUME NEW c \in Clients, SetLocks(c)
      PROVE  ValuesOfType'
  BY <1>9 DEF SetLocks, Lock, Goto
<1>10. ASSUME NEW c \in Clients, SetWrites(c)
      PROVE  ValuesOfType'
  <2>1. target[c] \in Nat
    BY DEF Types, TypeOK
  <2>2. Low(target[c]) \in 0 .. LowMod - 1 /\ Hi(target[c]) \in Nat
    BY <2>1, Words
  <2>3. alarm' \in 0 .. LowMod - 1 /\ target_hi' \in Nat
    BY <1>10, <2>2 DEF SetWrites, WriteAlarm, Goto
  <2> QED  BY <1>10, <2>3 DEF SetWrites, WriteAlarm, Goto
<1>11. ASSUME NEW c \in Clients, SetSeesFired(c)
      PROVE  ValuesOfType'
  BY <1>11 DEF SetSeesFired, Unlock, SetReturns, Goto
<1>12. ASSUME NEW c \in Clients, SetSeesArmed(c)
      PROVE  ValuesOfType'
  BY <1>12 DEF SetSeesArmed, Goto
<1>13. ASSUME NEW c \in Clients, SetDone(c)
      PROVE  ValuesOfType'
  BY <1>13 DEF SetDone, Unlock, SetReturns, Goto
<1>14. ASSUME NEW c \in Clients, SetMissed(c)
      PROVE  ValuesOfType'
  BY <1>14 DEF SetMissed, Unlock, SetReturns, Goto
<1>15. ASSUME NEW c \in Clients, SetMissedPending(c)
      PROVE  ValuesOfType'
  BY <1>15 DEF SetMissedPending, Unlock, SetReturns, Goto
<1>16. ASSUME NEW c \in Clients, Cancel(c)
      PROVE  ValuesOfType'
  BY <1>16 DEF Cancel, Settled
<1>17. ASSUME NEW c \in Clients, ForceIrq(c)
      PROVE  ValuesOfType'
  BY <1>17 DEF ForceIrq, Goto
<1>18. ASSUME NEW c \in Clients, ForceSetsBit(c)
      PROVE  ValuesOfType'
  BY <1>18 DEF ForceSetsBit, Goto
<1>19. ASSUME NEW c \in Clients, SetCallback(c)
      PROVE  ValuesOfType'
  BY <1>19 DEF SetCallback
<1>20. ASSUME NEW c \in Clients, RemoveCallback(c)
      PROVE  ValuesOfType'
  BY <1>20 DEF RemoveCallback, Settled
<1> QED
  BY <1>1, <1>2, <1>3, <1>4, <1>5, <1>6, <1>7, <1>8, <1>9, <1>10, <1>11, <1>12, <1>13, <1>14, <1>15, <1>16, <1>17, <1>18, <1>19, <1>20
  DEF Next, Handler, SetTargetStep

LEMMA LockIsKept ==
    ASSUME IInv, Next
    PROVE  LockKept'
<1> USE HardwareAlarmAssumption, TimerAssumption DEF IInv, LockKept, Types, TypeOK, InSection, Written, regs, soft, history
<1>1. CASE Tick
  BY <1>1 DEF Tick, Advances
<1>2. CASE HandlerEnter
  BY <1>2 DEF HandlerEnter
<1>3. CASE HandlerLock
  BY <1>3 DEF HandlerLock, Lock
<1>4. CASE HandlerFires
  BY <1>4 DEF HandlerFires, Unlock, Settled
<1>5. CASE HandlerRearms
  BY <1>5 DEF HandlerRearms, Unlock, WriteAlarm
<1>6. CASE HandlerIgnores
  BY <1>6 DEF HandlerIgnores, Unlock
<1>7. CASE HandlerReturns
  BY <1>7 DEF HandlerReturns
<1>8. ASSUME NEW c \in Clients, SetTarget(c)
      PROVE  LockKept'
  BY <1>8 DEF SetTarget, Goto
<1>9. ASSUME NEW c \in Clients, SetLocks(c)
      PROVE  LockKept'
  BY <1>9 DEF SetLocks, Lock, Goto
<1>10. ASSUME NEW c \in Clients, SetWrites(c)
      PROVE  LockKept'
  BY <1>10 DEF SetWrites, WriteAlarm, Goto
<1>11. ASSUME NEW c \in Clients, SetSeesFired(c)
      PROVE  LockKept'
  BY <1>11 DEF SetSeesFired, Unlock, SetReturns, Goto
<1>12. ASSUME NEW c \in Clients, SetSeesArmed(c)
      PROVE  LockKept'
  BY <1>12 DEF SetSeesArmed, Goto
<1>13. ASSUME NEW c \in Clients, SetDone(c)
      PROVE  LockKept'
  BY <1>13 DEF SetDone, Unlock, SetReturns, Goto
<1>14. ASSUME NEW c \in Clients, SetMissed(c)
      PROVE  LockKept'
  BY <1>14 DEF SetMissed, Unlock, SetReturns, Goto
<1>15. ASSUME NEW c \in Clients, SetMissedPending(c)
      PROVE  LockKept'
  BY <1>15 DEF SetMissedPending, Unlock, SetReturns, Goto
<1>16. ASSUME NEW c \in Clients, Cancel(c)
      PROVE  LockKept'
  BY <1>16 DEF Cancel, Settled
<1>17. ASSUME NEW c \in Clients, ForceIrq(c)
      PROVE  LockKept'
  BY <1>17 DEF ForceIrq, Goto
<1>18. ASSUME NEW c \in Clients, ForceSetsBit(c)
      PROVE  LockKept'
  BY <1>18 DEF ForceSetsBit, Goto
<1>19. ASSUME NEW c \in Clients, SetCallback(c)
      PROVE  LockKept'
  BY <1>19 DEF SetCallback
<1>20. ASSUME NEW c \in Clients, RemoveCallback(c)
      PROVE  LockKept'
  BY <1>20 DEF RemoveCallback, Settled
<1> QED
  BY <1>1, <1>2, <1>3, <1>4, <1>5, <1>6, <1>7, <1>8, <1>9, <1>10, <1>11, <1>12, <1>13, <1>14, <1>15, <1>16, <1>17, <1>18, <1>19, <1>20
  DEF Next, Handler, SetTargetStep

LEMMA WrittenKept ==
    ASSUME IInv, Next
    PROVE  Written'
<1> USE HardwareAlarmAssumption, TimerAssumption DEF IInv, Written, InSection, Types, TypeOK, ForceIsPending, regs, soft, history
<1>1. CASE Tick
  BY <1>1 DEF Tick, Advances
<1>2. CASE HandlerEnter
  BY <1>2 DEF HandlerEnter
<1>3. CASE HandlerLock
  BY <1>3 DEF HandlerLock, Lock
<1>4. CASE HandlerFires
  BY <1>4 DEF HandlerFires, Unlock, Settled
<1>5. CASE HandlerRearms
  BY <1>5 DEF HandlerRearms, Unlock, WriteAlarm
<1>6. CASE HandlerIgnores
  BY <1>6 DEF HandlerIgnores, Unlock
<1>7. CASE HandlerReturns
  BY <1>7 DEF HandlerReturns
<1>8. ASSUME NEW c \in Clients, SetTarget(c)
      PROVE  Written'
  BY <1>8 DEF SetTarget, Goto
<1>9. ASSUME NEW c \in Clients, SetLocks(c)
      PROVE  Written'
  BY <1>9 DEF SetLocks, Lock, Goto
<1>10. ASSUME NEW c \in Clients, SetWrites(c)
      PROVE  Written'
  BY <1>10 DEF SetWrites, WriteAlarm, Goto
<1>11. ASSUME NEW c \in Clients, SetSeesFired(c)
      PROVE  Written'
  BY <1>11 DEF SetSeesFired, Unlock, SetReturns, Goto
<1>12. ASSUME NEW c \in Clients, SetSeesArmed(c)
      PROVE  Written'
  BY <1>12 DEF SetSeesArmed, Goto
<1>13. ASSUME NEW c \in Clients, SetDone(c)
      PROVE  Written'
  BY <1>13 DEF SetDone, Unlock, SetReturns, Goto
<1>14. ASSUME NEW c \in Clients, SetMissed(c)
      PROVE  Written'
  BY <1>14 DEF SetMissed, Unlock, SetReturns, Goto
<1>15. ASSUME NEW c \in Clients, SetMissedPending(c)
      PROVE  Written'
  BY <1>15 DEF SetMissedPending, Unlock, SetReturns, Goto
<1>16. ASSUME NEW c \in Clients, Cancel(c)
      PROVE  Written'
  BY <1>16 DEF Cancel, Settled
<1>17. ASSUME NEW c \in Clients, ForceIrq(c)
      PROVE  Written'
  BY <1>17 DEF ForceIrq, Goto
<1>18. ASSUME NEW c \in Clients, ForceSetsBit(c)
      PROVE  Written'
  BY <1>18 DEF ForceSetsBit, Goto
<1>19. ASSUME NEW c \in Clients, SetCallback(c)
      PROVE  Written'
  BY <1>19 DEF SetCallback
<1>20. ASSUME NEW c \in Clients, RemoveCallback(c)
      PROVE  Written'
  BY <1>20 DEF RemoveCallback, Settled
<1> QED
  BY <1>1, <1>2, <1>3, <1>4, <1>5, <1>6, <1>7, <1>8, <1>9, <1>10, <1>11, <1>12, <1>13, <1>14, <1>15, <1>16, <1>17, <1>18, <1>19, <1>20
  DEF Next, Handler, SetTargetStep

LEMMA WantIsSetKept ==
    ASSUME IInv, Next
    PROVE  WantIsSet'
<1> USE HardwareAlarmAssumption, TimerAssumption DEF IInv, WantIsSet, Kept, Types, TypeOK, InSection, Written, regs, soft, history
<1>1. CASE Tick
  BY <1>1 DEF Tick, Advances
<1>2. CASE HandlerEnter
  BY <1>2 DEF HandlerEnter
<1>3. CASE HandlerLock
  BY <1>3 DEF HandlerLock, Lock
<1>4. CASE HandlerFires
  BY <1>4 DEF HandlerFires, Unlock, Settled
<1>5. CASE HandlerRearms
  BY <1>5 DEF HandlerRearms, Unlock, WriteAlarm
<1>6. CASE HandlerIgnores
  BY <1>6 DEF HandlerIgnores, Unlock
<1>7. CASE HandlerReturns
  BY <1>7 DEF HandlerReturns
<1>8. ASSUME NEW c \in Clients, SetTarget(c)
      PROVE  WantIsSet'
  BY <1>8 DEF SetTarget, Goto
<1>9. ASSUME NEW c \in Clients, SetLocks(c)
      PROVE  WantIsSet'
  BY <1>9 DEF SetLocks, Lock, Goto
<1>10. ASSUME NEW c \in Clients, SetWrites(c)
      PROVE  WantIsSet'
  BY <1>10 DEF SetWrites, WriteAlarm, Goto
<1>11. ASSUME NEW c \in Clients, SetSeesFired(c)
      PROVE  WantIsSet'
  BY <1>11 DEF SetSeesFired, Unlock, SetReturns, Goto
<1>12. ASSUME NEW c \in Clients, SetSeesArmed(c)
      PROVE  WantIsSet'
  BY <1>12 DEF SetSeesArmed, Goto
<1>13. ASSUME NEW c \in Clients, SetDone(c)
      PROVE  WantIsSet'
  BY <1>13 DEF SetDone, Unlock, SetReturns, Goto
<1>14. ASSUME NEW c \in Clients, SetMissed(c)
      PROVE  WantIsSet'
  BY <1>14 DEF SetMissed, Unlock, SetReturns, Goto
<1>15. ASSUME NEW c \in Clients, SetMissedPending(c)
      PROVE  WantIsSet'
  BY <1>15 DEF SetMissedPending, Unlock, SetReturns, Goto
<1>16. ASSUME NEW c \in Clients, Cancel(c)
      PROVE  WantIsSet'
  BY <1>16 DEF Cancel, Settled
<1>17. ASSUME NEW c \in Clients, ForceIrq(c)
      PROVE  WantIsSet'
  BY <1>17 DEF ForceIrq, Goto
<1>18. ASSUME NEW c \in Clients, ForceSetsBit(c)
      PROVE  WantIsSet'
  BY <1>18 DEF ForceSetsBit, Goto
<1>19. ASSUME NEW c \in Clients, SetCallback(c)
      PROVE  WantIsSet'
  BY <1>19 DEF SetCallback
<1>20. ASSUME NEW c \in Clients, RemoveCallback(c)
      PROVE  WantIsSet'
  BY <1>20 DEF RemoveCallback, Settled
<1> QED
  BY <1>1, <1>2, <1>3, <1>4, <1>5, <1>6, <1>7, <1>8, <1>9, <1>10, <1>11, <1>12, <1>13, <1>14, <1>15, <1>16, <1>17, <1>18, <1>19, <1>20
  DEF Next, Handler, SetTargetStep

LEMMA ForceIsPendingKept ==
    ASSUME IInv, Next
    PROVE  ForceIsPending'
<1> USE HardwareAlarmAssumption, TimerAssumption DEF IInv, ForceIsPending, Types, TypeOK, Written, InSection, regs, soft, history
<1>1. CASE Tick
  BY <1>1 DEF Tick, Advances
<1>2. CASE HandlerEnter
  BY <1>2 DEF HandlerEnter
<1>3. CASE HandlerLock
  BY <1>3 DEF HandlerLock, Lock
<1>4. CASE HandlerFires
  BY <1>4 DEF HandlerFires, Unlock, Settled
<1>5. CASE HandlerRearms
  BY <1>5 DEF HandlerRearms, Unlock, WriteAlarm
<1>6. CASE HandlerIgnores
  BY <1>6 DEF HandlerIgnores, Unlock
<1>7. CASE HandlerReturns
  BY <1>7 DEF HandlerReturns
<1>8. ASSUME NEW c \in Clients, SetTarget(c)
      PROVE  ForceIsPending'
  BY <1>8 DEF SetTarget, Goto
<1>9. ASSUME NEW c \in Clients, SetLocks(c)
      PROVE  ForceIsPending'
  BY <1>9 DEF SetLocks, Lock, Goto
<1>10. ASSUME NEW c \in Clients, SetWrites(c)
      PROVE  ForceIsPending'
  BY <1>10 DEF SetWrites, WriteAlarm, Goto
<1>11. ASSUME NEW c \in Clients, SetSeesFired(c)
      PROVE  ForceIsPending'
  BY <1>11 DEF SetSeesFired, Unlock, SetReturns, Goto
<1>12. ASSUME NEW c \in Clients, SetSeesArmed(c)
      PROVE  ForceIsPending'
  BY <1>12 DEF SetSeesArmed, Goto
<1>13. ASSUME NEW c \in Clients, SetDone(c)
      PROVE  ForceIsPending'
  BY <1>13 DEF SetDone, Unlock, SetReturns, Goto
<1>14. ASSUME NEW c \in Clients, SetMissed(c)
      PROVE  ForceIsPending'
  BY <1>14 DEF SetMissed, Unlock, SetReturns, Goto
<1>15. ASSUME NEW c \in Clients, SetMissedPending(c)
      PROVE  ForceIsPending'
  BY <1>15 DEF SetMissedPending, Unlock, SetReturns, Goto
<1>16. ASSUME NEW c \in Clients, Cancel(c)
      PROVE  ForceIsPending'
  BY <1>16 DEF Cancel, Settled
<1>17. ASSUME NEW c \in Clients, ForceIrq(c)
      PROVE  ForceIsPending'
  BY <1>17 DEF ForceIrq, Goto
<1>18. ASSUME NEW c \in Clients, ForceSetsBit(c)
      PROVE  ForceIsPending'
  BY <1>18 DEF ForceSetsBit, Goto
<1>19. ASSUME NEW c \in Clients, SetCallback(c)
      PROVE  ForceIsPending'
  BY <1>19 DEF SetCallback
<1>20. ASSUME NEW c \in Clients, RemoveCallback(c)
      PROVE  ForceIsPending'
  BY <1>20 DEF RemoveCallback, Settled
<1> QED
  BY <1>1, <1>2, <1>3, <1>4, <1>5, <1>6, <1>7, <1>8, <1>9, <1>10, <1>11, <1>12, <1>13, <1>14, <1>15, <1>16, <1>17, <1>18, <1>19, <1>20
  DEF Next, Handler, SetTargetStep

(* A high word that has not been reached is that of a time to come.        *)
LEMMA NotReached ==
    ASSUME IInv, Kept, ~HighWordReached
    PROVE  time < want
<1>1. want \in Nat /\ time \in Nat /\ target_hi = Hi(want)
  BY HardwareAlarmAssumption, TimerAssumption DEF IInv, Types, TypeOK, WantIsSet, Kept
<1>2. Hi(time) < Hi(want)
  BY <1>1, Words DEF HighWordReached
<1> QED  BY <1>1, <1>2, EarlierByHi

(* The match that comes in a tick, for a target less than a wrap ahead, is *)
(* its own.                                                                *)
LEMMA MatchIsDue ==
    ASSUME NEW t \in Nat, time \in Nat, t - time < LowMod, Low(time + 1) = Low(t)
    PROVE  t <= time + 1
<1> DEFINE u == time + 1
<1> SUFFICES ASSUME u < t
             PROVE  FALSE
  OBVIOUS
<1>1. u \in Nat /\ t - u < LowMod /\ Low(u) = Low(t)
  BY HardwareAlarmAssumption, TimerAssumption
<1> HIDE DEF u
<1> QED  BY <1>1, LowWordsDiffer

(* Time that passes keeps what comes in time in time.                      *)
LEMMA TickInTime ==
    ASSUME IInv, Tick, NEW t \in Nat, ComesInTime(t), alarm = Low(t)
    PROVE  ComesInTime(t)'
<1>1. time \in Nat /\ time' = time + 1 /\ UNCHANGED <<pc, hpc, intf>>
  BY DEF Tick, Advances, IInv, Types, TypeOK
<1>2. Coming' => Coming \/ Low(time + 1) = alarm
  <2> DEFINE match == armed /\ Low(time + 1) = alarm
  <2>1. intr' = (intr \/ match) /\ nvic' = (nvic \/ (match /\ enabled))
    BY DEF Tick, Advances
  <2> HIDE DEF match
  <2>2. Coming' => Coming \/ match
    BY <1>1, <2>1 DEF Coming
  <2> QED  BY <2>2 DEF match
<1>3. ~Forcing' /\ t - time' < LowMod
  BY <1>1, HardwareAlarmAssumption, TimerAssumption DEF ComesInTime, Forcing
<1>4. Coming \/ hpc = "cleared" => t <= time'
  BY <1>1 DEF ComesInTime
<1>5. Low(time + 1) = alarm => t <= time'
  BY <1>1, MatchIsDue DEF ComesInTime
<1> QED  BY <1>1, <1>2, <1>3, <1>4, <1>5 DEF ComesInTime

LEMMA WantIsCoveredKept ==
    ASSUME IInv, Next
    PROVE  WantIsCovered'
<1> USE HardwareAlarmAssumption, TimerAssumption DEF IInv, WantIsCovered, WantIsSet, Kept, Written, InSection, Types, TypeOK, regs, soft, history
<1>1. CASE Tick
  <2> DEFINE match == armed /\ Low(time + 1) = alarm
  <2>1. /\ time' = time + 1
        /\ armed' = (armed /\ ~match) /\ intr' = (intr \/ match)
        /\ UNCHANGED <<hpc, lock, want, overwritten>>
    BY <1>1 DEF Tick, Advances
  <2>2. ASSUME Kept', lock = None
        PROVE  alarm = Low(want)
               /\ (intr \/ hpc = "entered" \/ (armed /\ time < want))
    BY <2>1, <2>2
  <2>3. CASE time + 1 = want
    <3>1. Kept' /\ lock = None => (match <=> armed)
      BY <2>2, <2>3
    <3> HIDE DEF match
    <3> QED  BY <2>1, <2>2, <3>1
  <2>4. CASE time + 1 # want
    <3>1. want # None => want \in Nat
      OBVIOUS
    <3>2. want # None /\ time < want => time + 1 < want
      BY <2>4, <3>1
    <3> HIDE DEF match
    <3> QED  BY <2>1, <2>2, <3>2
  <2> QED  BY <2>3, <2>4
<1>2. CASE HandlerEnter
  BY <1>2 DEF HandlerEnter
<1>3. CASE HandlerLock
  BY <1>3 DEF HandlerLock, Lock
<1>4. CASE HandlerFires
  BY <1>4 DEF HandlerFires, Unlock, Settled
<1>5. CASE HandlerRearms
  <2>1. Kept => time < want
    BY <1>5, NotReached DEF HandlerRearms
  <2> QED  BY <1>5, <2>1 DEF HandlerRearms, Unlock, WriteAlarm
<1>6. CASE HandlerIgnores
  BY <1>6 DEF HandlerIgnores, Unlock
<1>7. CASE HandlerReturns
  BY <1>7 DEF HandlerReturns
<1>8. ASSUME NEW c \in Clients, SetTarget(c)
      PROVE  WantIsCovered'
  BY <1>8 DEF SetTarget, Goto
<1>9. ASSUME NEW c \in Clients, SetLocks(c)
      PROVE  WantIsCovered'
  BY <1>9 DEF SetLocks, Lock, Goto
<1>10. ASSUME NEW c \in Clients, SetWrites(c)
      PROVE  WantIsCovered'
  BY <1>10 DEF SetWrites, WriteAlarm, Goto
<1>11. ASSUME NEW c \in Clients, SetSeesFired(c)
      PROVE  WantIsCovered'
  BY <1>11 DEF SetSeesFired, Unlock, SetReturns, Goto
<1>12. ASSUME NEW c \in Clients, SetSeesArmed(c)
      PROVE  WantIsCovered'
  BY <1>12 DEF SetSeesArmed, Goto
<1>13. ASSUME NEW c \in Clients, SetDone(c)
      PROVE  WantIsCovered'
  BY <1>13 DEF SetDone, Unlock, SetReturns, Goto
<1>14. ASSUME NEW c \in Clients, SetMissed(c)
      PROVE  WantIsCovered'
  BY <1>14 DEF SetMissed, Unlock, SetReturns, Goto
<1>15. ASSUME NEW c \in Clients, SetMissedPending(c)
      PROVE  WantIsCovered'
  BY <1>15 DEF SetMissedPending, Unlock, SetReturns, Goto
<1>16. ASSUME NEW c \in Clients, Cancel(c)
      PROVE  WantIsCovered'
  BY <1>16 DEF Cancel, Settled
<1>17. ASSUME NEW c \in Clients, ForceIrq(c)
      PROVE  WantIsCovered'
  BY <1>17 DEF ForceIrq, Goto
<1>18. ASSUME NEW c \in Clients, ForceSetsBit(c)
      PROVE  WantIsCovered'
  BY <1>18 DEF ForceSetsBit, Goto
<1>19. ASSUME NEW c \in Clients, SetCallback(c)
      PROVE  WantIsCovered'
  BY <1>19 DEF SetCallback
<1>20. ASSUME NEW c \in Clients, RemoveCallback(c)
      PROVE  WantIsCovered'
  BY <1>20 DEF RemoveCallback, Settled
<1> QED
  BY <1>1, <1>2, <1>3, <1>4, <1>5, <1>6, <1>7, <1>8, <1>9, <1>10, <1>11, <1>12, <1>13, <1>14, <1>15, <1>16, <1>17, <1>18, <1>19, <1>20
  DEF Next, Handler, SetTargetStep

LEMMA ForceIsCoveredKept ==
    ASSUME IInv, Next
    PROVE  ForceIsCovered'
<1> USE HardwareAlarmAssumption, TimerAssumption DEF IInv, ForceIsCovered, ForceIsPending, Forcing, Written, InSection, Types, TypeOK, regs, soft, history
<1>1. CASE Tick
  BY <1>1 DEF Tick, Advances
<1>2. CASE HandlerEnter
  BY <1>2 DEF HandlerEnter
<1>3. CASE HandlerLock
  BY <1>3 DEF HandlerLock, Lock
<1>4. CASE HandlerFires
  BY <1>4 DEF HandlerFires, Unlock, Settled
<1>5. CASE HandlerRearms
  BY <1>5 DEF HandlerRearms, Unlock, WriteAlarm
<1>6. CASE HandlerIgnores
  BY <1>6 DEF HandlerIgnores, Unlock
<1>7. CASE HandlerReturns
  BY <1>7 DEF HandlerReturns
<1>8. ASSUME NEW c \in Clients, SetTarget(c)
      PROVE  ForceIsCovered'
  BY <1>8 DEF SetTarget, Goto
<1>9. ASSUME NEW c \in Clients, SetLocks(c)
      PROVE  ForceIsCovered'
  BY <1>9 DEF SetLocks, Lock, Goto
<1>10. ASSUME NEW c \in Clients, SetWrites(c)
      PROVE  ForceIsCovered'
  BY <1>10 DEF SetWrites, WriteAlarm, Goto
<1>11. ASSUME NEW c \in Clients, SetSeesFired(c)
      PROVE  ForceIsCovered'
  BY <1>11 DEF SetSeesFired, Unlock, SetReturns, Goto
<1>12. ASSUME NEW c \in Clients, SetSeesArmed(c)
      PROVE  ForceIsCovered'
  BY <1>12 DEF SetSeesArmed, Goto
<1>13. ASSUME NEW c \in Clients, SetDone(c)
      PROVE  ForceIsCovered'
  BY <1>13 DEF SetDone, Unlock, SetReturns, Goto
<1>14. ASSUME NEW c \in Clients, SetMissed(c)
      PROVE  ForceIsCovered'
  BY <1>14 DEF SetMissed, Unlock, SetReturns, Goto
<1>15. ASSUME NEW c \in Clients, SetMissedPending(c)
      PROVE  ForceIsCovered'
  BY <1>15 DEF SetMissedPending, Unlock, SetReturns, Goto
<1>16. ASSUME NEW c \in Clients, Cancel(c)
      PROVE  ForceIsCovered'
  BY <1>16 DEF Cancel, Settled
<1>17. ASSUME NEW c \in Clients, ForceIrq(c)
      PROVE  ForceIsCovered'
  BY <1>17 DEF ForceIrq, Goto
<1>18. ASSUME NEW c \in Clients, ForceSetsBit(c)
      PROVE  ForceIsCovered'
  BY <1>18 DEF ForceSetsBit, Goto
<1>19. ASSUME NEW c \in Clients, SetCallback(c)
      PROVE  ForceIsCovered'
  BY <1>19 DEF SetCallback
<1>20. ASSUME NEW c \in Clients, RemoveCallback(c)
      PROVE  ForceIsCovered'
  BY <1>20 DEF RemoveCallback, Settled
<1> QED
  BY <1>1, <1>2, <1>3, <1>4, <1>5, <1>6, <1>7, <1>8, <1>9, <1>10, <1>11, <1>12, <1>13, <1>14, <1>15, <1>16, <1>17, <1>18, <1>19, <1>20
  DEF Next, Handler, SetTargetStep

LEMMA TargetInTimeKept ==
    ASSUME IInv, Next
    PROVE  TargetIsInTime'
<1> USE HardwareAlarmAssumption, TimerAssumption DEF IInv, TargetIsInTime, ComesInTime, Coming, Forcing, Written, InSection, Types, TypeOK, regs, soft, history
<1>1. CASE Tick
  <2> SUFFICES ASSUME NEW c \in Clients, pc[c] \in {"check", "race"}, ~early
               PROVE  ComesInTime(target[c])'
    BY <1>1 DEF Tick, Advances
  <2>1. target[c] \in Nat /\ ComesInTime(target[c]) /\ alarm = Low(target[c])
    OBVIOUS
  <2>2. target'[c] = target[c]
    BY <1>1 DEF Tick, Advances
  <2> QED  BY <1>1, <2>1, <2>2, TickInTime DEF ComesInTime
<1>2. CASE HandlerEnter
  BY <1>2 DEF HandlerEnter
<1>3. CASE HandlerLock
  BY <1>3 DEF HandlerLock, Lock
<1>4. CASE HandlerFires
  BY <1>4 DEF HandlerFires, Unlock, Settled
<1>5. CASE HandlerRearms
  BY <1>5 DEF HandlerRearms, Unlock, WriteAlarm
<1>6. CASE HandlerIgnores
  BY <1>6 DEF HandlerIgnores, Unlock
<1>7. CASE HandlerReturns
  BY <1>7 DEF HandlerReturns
<1>8. ASSUME NEW c \in Clients, SetTarget(c)
      PROVE  TargetIsInTime'
  BY <1>8 DEF SetTarget, Goto
<1>9. ASSUME NEW c \in Clients, SetLocks(c)
      PROVE  TargetIsInTime'
  BY <1>9 DEF SetLocks, Lock, Goto
<1>10. ASSUME NEW c \in Clients, SetWrites(c)
      PROVE  TargetIsInTime'
  <2>1. IInv /\ InSection(c)
    BY <1>10 DEF SetWrites
  <2>2. target[c] \in Nat /\ time \in Nat /\ UNCHANGED <<time, target, intf, hpc>>
    BY <1>10 DEF SetWrites
  <2>3. \A d \in Clients : pc'[d] \in {"check", "race"} => d = c
    BY <1>10, <2>1, SectionIsAlone DEF SetWrites, Goto
  <2>4. ASSUME ~early'
        PROVE  ComesInTime(target[c])'
    <3>1. ~Coming /\ ~Forcing /\ target[c] - time < LowMod
      BY <1>10, <2>2, <2>4 DEF SetWrites
    <3>2. ~Forcing'
      BY <1>10, <3>1 DEF SetWrites, Goto
    <3>3. hpc' # "cleared"
      BY <2>1, <2>2, SectionIsAlone
    <3>4. Coming' => Low(target[c]) = Low(time)
      BY <1>10, <2>2, <3>1 DEF SetWrites, WriteAlarm, Coming
    <3>5. Low(target[c]) = Low(time) => target[c] <= time
      BY <2>2, <3>1, LowWordsDiffer
    <3> QED  BY <2>2, <3>1, <3>2, <3>3, <3>4, <3>5 DEF ComesInTime
  <2> QED  BY <2>2, <2>3, <2>4
<1>11. ASSUME NEW c \in Clients, SetSeesFired(c)
      PROVE  TargetIsInTime'
  BY <1>11 DEF SetSeesFired, Unlock, SetReturns, Goto
<1>12. ASSUME NEW c \in Clients, SetSeesArmed(c)
      PROVE  TargetIsInTime'
  BY <1>12 DEF SetSeesArmed, Goto
<1>13. ASSUME NEW c \in Clients, SetDone(c)
      PROVE  TargetIsInTime'
  BY <1>13 DEF SetDone, Unlock, SetReturns, Goto
<1>14. ASSUME NEW c \in Clients, SetMissed(c)
      PROVE  TargetIsInTime'
  BY <1>14 DEF SetMissed, Unlock, SetReturns, Goto
<1>15. ASSUME NEW c \in Clients, SetMissedPending(c)
      PROVE  TargetIsInTime'
  BY <1>15 DEF SetMissedPending, Unlock, SetReturns, Goto
<1>16. ASSUME NEW c \in Clients, Cancel(c)
      PROVE  TargetIsInTime'
  BY <1>16 DEF Cancel, Settled
<1>17. ASSUME NEW c \in Clients, ForceIrq(c)
      PROVE  TargetIsInTime'
  BY <1>17 DEF ForceIrq, Goto
<1>18. ASSUME NEW c \in Clients, ForceSetsBit(c)
      PROVE  TargetIsInTime'
  BY <1>18 DEF ForceSetsBit, Goto
<1>19. ASSUME NEW c \in Clients, SetCallback(c)
      PROVE  TargetIsInTime'
  BY <1>19 DEF SetCallback
<1>20. ASSUME NEW c \in Clients, RemoveCallback(c)
      PROVE  TargetIsInTime'
  BY <1>20 DEF RemoveCallback, Settled
<1> QED
  BY <1>1, <1>2, <1>3, <1>4, <1>5, <1>6, <1>7, <1>8, <1>9, <1>10, <1>11, <1>12, <1>13, <1>14, <1>15, <1>16, <1>17, <1>18, <1>19, <1>20
  DEF Next, Handler, SetTargetStep

LEMMA WantInTimeKept ==
    ASSUME IInv, Next
    PROVE  WantIsInTime'
<1> USE HardwareAlarmAssumption, TimerAssumption DEF IInv, WantIsInTime, TargetIsInTime, WantIsSet, Kept, ComesInTime, Coming, Forcing, Written, InSection, Types, TypeOK, regs, soft, history
<1>1. CASE Tick
  <2> SUFFICES ASSUME Kept, ~forced, ~early
               PROVE  ComesInTime(want)'
    BY <1>1 DEF Tick, Advances
  <2>1. want \in Nat /\ ComesInTime(want) /\ alarm = Low(want)
    OBVIOUS
  <2>2. want' = want
    BY <1>1 DEF Tick, Advances
  <2> QED  BY <1>1, <2>1, <2>2, TickInTime DEF ComesInTime
<1>2. CASE HandlerEnter
  BY <1>2 DEF HandlerEnter
<1>3. CASE HandlerLock
  BY <1>3 DEF HandlerLock, Lock
<1>4. CASE HandlerFires
  BY <1>4 DEF HandlerFires, Unlock, Settled
<1>5. CASE HandlerRearms
  <2>1. ~(Kept /\ ~forced /\ ~early)
    <3>1. Kept => time < want /\ hpc = "cleared" /\ want \in Nat /\ time \in Nat
      BY <1>5, NotReached DEF HandlerRearms
    <3> QED  BY <3>1 DEF ComesInTime
  <2> QED  BY <1>5, <2>1 DEF HandlerRearms, Unlock, WriteAlarm
<1>6. CASE HandlerIgnores
  BY <1>6 DEF HandlerIgnores, Unlock
<1>7. CASE HandlerReturns
  BY <1>7 DEF HandlerReturns
<1>8. ASSUME NEW c \in Clients, SetTarget(c)
      PROVE  WantIsInTime'
  BY <1>8 DEF SetTarget, Goto
<1>9. ASSUME NEW c \in Clients, SetLocks(c)
      PROVE  WantIsInTime'
  BY <1>9 DEF SetLocks, Lock, Goto
<1>10. ASSUME NEW c \in Clients, SetWrites(c)
      PROVE  WantIsInTime'
  BY <1>10 DEF SetWrites, WriteAlarm, Goto
<1>11. ASSUME NEW c \in Clients, SetSeesFired(c)
      PROVE  WantIsInTime'
  BY <1>11 DEF SetSeesFired, Unlock, SetReturns, Goto
<1>12. ASSUME NEW c \in Clients, SetSeesArmed(c)
      PROVE  WantIsInTime'
  BY <1>12 DEF SetSeesArmed, Goto
<1>13. ASSUME NEW c \in Clients, SetDone(c)
      PROVE  WantIsInTime'
  BY <1>13 DEF SetDone, Unlock, SetReturns, Goto
<1>14. ASSUME NEW c \in Clients, SetMissed(c)
      PROVE  WantIsInTime'
  BY <1>14 DEF SetMissed, Unlock, SetReturns, Goto
<1>15. ASSUME NEW c \in Clients, SetMissedPending(c)
      PROVE  WantIsInTime'
  BY <1>15 DEF SetMissedPending, Unlock, SetReturns, Goto
<1>16. ASSUME NEW c \in Clients, Cancel(c)
      PROVE  WantIsInTime'
  BY <1>16 DEF Cancel, Settled
<1>17. ASSUME NEW c \in Clients, ForceIrq(c)
      PROVE  WantIsInTime'
  BY <1>17 DEF ForceIrq, Goto
<1>18. ASSUME NEW c \in Clients, ForceSetsBit(c)
      PROVE  WantIsInTime'
  BY <1>18 DEF ForceSetsBit, Goto
<1>19. ASSUME NEW c \in Clients, SetCallback(c)
      PROVE  WantIsInTime'
  BY <1>19 DEF SetCallback
<1>20. ASSUME NEW c \in Clients, RemoveCallback(c)
      PROVE  WantIsInTime'
  BY <1>20 DEF RemoveCallback, Settled
<1> QED
  BY <1>1, <1>2, <1>3, <1>4, <1>5, <1>6, <1>7, <1>8, <1>9, <1>10, <1>11, <1>12, <1>13, <1>14, <1>15, <1>16, <1>17, <1>18, <1>19, <1>20
  DEF Next, Handler, SetTargetStep

LEMMA InvariantStarts ==
    ASSUME Init
    PROVE  IInv
<1>1. FlagsOfType
  BY Zenon DEF Init, FlagsOfType
<1>2. /\ time = 0 /\ alarm = 0 /\ target_hi = 0 /\ lag = 0 /\ want = None
      /\ hpc = "off" /\ lock = None /\ forced = FALSE
      /\ pc = [c \in Clients |-> "idle"] /\ target = [c \in Clients |-> 0]
      /\ old = [c \in Clients |-> FALSE]
  BY DEF Init
<1>3. ValuesOfType /\ LockKept
  BY <1>2, HardwareAlarmAssumption, TimerAssumption DEF ValuesOfType, LockKept, InSection
<1> QED
  BY <1>1, <1>2, <1>3, TypesInParts DEF IInv, Written, InSection, WantIsSet, Kept,
     WantIsCovered, ForceIsPending, ForceIsCovered, WantIsInTime, TargetIsInTime

LEMMA Inductive ==
    ASSUME IInv, [Next]_vars
    PROVE  IInv'
<1>1. CASE Next
  <2>1. Types'
    BY <1>1, FlagsKept, ValuesKept, LockIsKept, TypesInParts
       DEF Types, TypeOK, FlagsOfType, ValuesOfType, LockKept, InSection
  <2> QED
    BY <1>1, <2>1, WrittenKept, WantIsSetKept, WantIsCoveredKept,
       ForceIsPendingKept, ForceIsCoveredKept, WantInTimeKept, TargetInTimeKept
       DEF IInv
<1>2. CASE UNCHANGED vars
  BY <1>2 DEF vars, regs, soft, history, IInv, Types, TypeOK, Written, InSection,
     WantIsSet, Kept, WantIsCovered, ForceIsPending, ForceIsCovered, Forcing,
     WantIsInTime, TargetIsInTime, ComesInTime, Coming
<1> QED  BY <1>1, <1>2

----------------------------------------------------------------------------

(* The inductive invariant holds in every reachable state.                 *)
THEOREM InvariantHolds == Spec => []IInv
<1>1. Init => IInv                   BY InvariantStarts
<1>2. IInv /\ [Next]_vars => IInv'   BY Inductive
<1> QED  BY <1>1, <1>2, PTL DEF Spec

(* An accepted target is never passed in silence, unless a missed one has  *)
(* taken its place in the comparator (timer.c 127-139, 182-218).           *)
THEOREM AcceptedTargetIsCovered == Spec => []TargetIsCovered
<1>1. IInv => TargetIsCovered
  <2> SUFFICES ASSUME IInv
               PROVE  TargetIsCovered
    OBVIOUS
  <2>1. TypeOK /\ WantIsSet /\ WantIsCovered
    BY DEF IInv, Types
  <2> QED  BY <2>1 DEF TargetIsCovered, WantIsSet, WantIsCovered, Kept, Covered, Coming
<1> QED  BY <1>1, InvariantHolds, PTL

(* Nor is a forced interrupt (timer.c 120-139, 234-241).                   *)
THEOREM ForceIsKept == Spec => []ForceIsNotLost
<1>1. IInv => ForceIsNotLost
  BY DEF IInv, ForceIsCovered, ForceIsNotLost, Coming
<1> QED  BY <1>1, InvariantHolds, PTL

(* A callback comes before its target only for a reason that was there     *)
(* when the target was written, or for a force (timer.c 127-139).          *)
THEOREM CallbackIsNotEarly == Spec => EarlyForAReason
<1>1. IInv /\ [Next]_vars =>
         [HandlerFires /\ want # None =>
             time >= want \/ forced \/ early \/ overwritten]_vars
  <2> SUFFICES ASSUME IInv, HandlerFires, want # None, ~forced, ~early, ~overwritten
               PROVE  time >= want
    OBVIOUS
  <2>1. hpc = "cleared" /\ lock = "irq" /\ time \in Nat /\ want \in Nat
    BY HardwareAlarmAssumption, TimerAssumption DEF HandlerFires, IInv, Types, TypeOK
  <2> QED  BY <2>1 DEF IInv, WantIsInTime, Kept, ComesInTime
<1> QED  BY <1>1, InvariantHolds, PTL DEF Spec, EarlyForAReason
=============================================================================
