------------------------------ MODULE Heartbeat ------------------------------
(***************************************************************************)
(* The heartbeat of the devices of a node (NMEA2000.cpp 1384-1441) and the *)
(* scheduler it is built on, tN2kSyncScheduler (N2kTimer.h): every device  *)
(* has a grid of times, SyncOffset + Offset + n * Period, and sends when   *)
(* the program first looks behind one of them.  The 64 bit clock does not  *)
(* come round.                                                             *)
(***************************************************************************)
EXTENDS Integers, Sequences

CONSTANTS
  DeviceCount,
  Default, DefaultOffset,   \* DefaultHeartbeatInterval; the offset of Open()
  MinInterval, MaxInterval, \* what the interval is brought between
  KeepCurrent, Restore,     \* 0xffffffff, 0xfffffffe
  ShortKeep,                \* 0xffff, which the early return looks for
  Intervals, Offsets,       \* what the application asks for
  MaxSequence,              \* 252
  Disabled,                 \* N2kScheduler64Disabled, later than any time
  MaxTime, MaxOdd           \* bounds: the clock; settings, claims, forced
                            \* heartbeats in all

VARIABLES
  now,                      \* N2kMillis64()
  open, SyncOffset,
  dev,                      \* Devices: [Period, Offset, NextTime, sequence,
                            \*           claiming]
  beats,                    \* of each device, since it got its settings or
                            \* was forced to send: [slot, sequence]
  polled,                   \* the last slot in which the program looked
  madeIn, tame,             \* the slot in which beats began; neither disabled
                            \* nor left behind by its grid
  odd                       \* what happened besides the regular heartbeats

vars == <<now, open, SyncOffset, dev, beats, polled, madeIn, tame, odd>>

DeviceIds == 0 .. DeviceCount - 1

\* The intervals are brought above 0, and no time is as late as Disabled.
HeartbeatAssumption ==
  /\ DeviceCount \in Nat /\ MaxSequence \in Nat /\ MaxOdd \in Nat
  /\ Default \in Nat /\ DefaultOffset \in Nat
  /\ MinInterval \in Nat \ {0} /\ MaxInterval \in Nat /\ MinInterval <= MaxInterval
  /\ Intervals \subseteq Nat \cup {KeepCurrent, Restore}
  /\ Offsets \subseteq Nat \cup {KeepCurrent}
  /\ MaxTime \in Nat /\ Disabled \in Nat /\ MaxTime < Disabled

\* The scheduler as its constructor leaves it.
tN2kSyncScheduler == [Period |-> 0, Offset |-> 0, NextTime |-> Disabled,
                      sequence |-> 0, claiming |-> FALSE]

Init ==
  /\ now = 0 /\ open = FALSE /\ SyncOffset = 0
  /\ dev = [d \in DeviceIds |-> tN2kSyncScheduler]
  /\ beats = [d \in DeviceIds |-> <<>>]
  /\ polled = [d \in DeviceIds |-> -1]
  /\ madeIn = [d \in DeviceIds |-> -1]
  /\ tame = [d \in DeviceIds |-> TRUE]
  /\ odd = 0

Odd == odd < MaxOdd /\ odd' = odd + 1

-----------------------------------------------------------------------------
(* tN2kSyncScheduler *)

IsTime(s) == now > s.NextTime

\* Seeded error: the time the grid has just passed is taken for the next one.
UpdateNextTime_bug_rounds_down(s, sync) ==
  LET base == s.Offset + sync
  IN [s EXCEPT !.NextTime =
        IF s.Period = 0 THEN Disabled
        ELSE IF base > now THEN base
        ELSE base + ((now - base) \div s.Period) * s.Period]

UpdateNextTime(s, sync) ==
  LET base == s.Offset + sync
  IN [s EXCEPT !.NextTime =
        IF s.Period = 0 THEN Disabled
        ELSE IF base > now THEN base
        ELSE base + ((now - base) \div s.Period + 1) * s.Period]

SetPeriodAndOffset(s, period, offset, sync) ==
  UpdateNextTime([s EXCEPT !.Period = period, !.Offset = offset], sync)

\* The place of a time on the grid of a device; below 0 before it begins.
Slot(s, sync, t) ==
  IF t < s.Offset + sync THEN -1 ELSE (t - s.Offset - sync) \div s.Period

-----------------------------------------------------------------------------
(* SetHeartbeatIntervalAndOffset *)

Within(interval) ==
  IF interval > MaxInterval THEN MaxInterval
  ELSE IF interval < MinInterval THEN MinInterval ELSE interval

\* The loop over the devices: c carries the two arguments, which the first
\* device writes over when a setting is kept or restored.
SetOne(c, d, sync) ==
  LET s == c.dev[d]
      interval == CASE c.interval = KeepCurrent -> s.Period
                    [] c.interval = Restore -> Default
                    [] OTHER -> c.interval
      offset == IF c.offset = KeepCurrent THEN s.Offset ELSE c.offset
      kept == Within(interval)
  IN IF interval = 0
     THEN [interval |-> 0, offset |-> offset,
           dev |-> [c.dev EXCEPT ![d].NextTime = Disabled]]
     ELSE [interval |-> kept, offset |-> offset,
           dev |-> IF s.Period = kept /\ s.Offset = offset THEN c.dev
                   ELSE [c.dev EXCEPT
                           ![d] = SetPeriodAndOffset(s, kept, offset, sync)]]

AfterSetting(interval, offset, ids, sync) ==
  LET upTo[n \in 0 .. DeviceCount] ==
        IF n = 0 THEN [interval |-> interval, offset |-> offset, dev |-> dev]
        ELSE IF n - 1 \in ids THEN SetOne(upTo[n - 1], n - 1, sync)
        ELSE upTo[n - 1]
  IN IF interval = KeepCurrent /\ offset = ShortKeep THEN dev
     ELSE upTo[DeviceCount].dev

\* A device whose settings change begins a new row of beats.
Settings(new, sync) ==
  LET changed == {d \in DeviceIds : \/ new[d].Period # dev[d].Period
                                    \/ new[d].Offset # dev[d].Offset
                                    \/ sync # SyncOffset}
  IN /\ dev' = new
     /\ beats' = [d \in DeviceIds |-> IF d \in changed THEN <<>> ELSE beats[d]]
     /\ polled' = [d \in DeviceIds |-> IF d \in changed THEN -1 ELSE polled[d]]
     /\ madeIn' = [d \in DeviceIds |->
          IF d \in changed /\ new[d].Period # 0 THEN Slot(new[d], sync, now)
          ELSE madeIn[d]]
     /\ tame' = [d \in DeviceIds |->
          /\ tame[d]
          /\ new[d].Period # 0 =>
               /\ new[d].NextTime # Disabled
               /\ sync # SyncOffset =>
                    \/ new[d].Period # dev[d].Period
                    \/ new[d].Offset # dev[d].Offset]

SetHeartbeatIntervalAndOffset(interval, offset, ids) ==
  /\ Odd
  /\ Settings(AfterSetting(interval, offset, ids, SyncOffset), SyncOffset)
  /\ UNCHANGED <<now, open, SyncOffset>>

\* The last step of Open(): the grids begin now, with the default settings.
Open ==
  /\ ~open /\ open' = TRUE
  /\ SyncOffset' = now
  /\ Settings(AfterSetting(Default, DefaultOffset, DeviceIds, now), now)
  /\ UNCHANGED <<now, odd>>

-----------------------------------------------------------------------------
(* SendHeartbeat, which ParseMessages calls in every round *)

Active(d) == ~dev[d].claiming

OnGrid(d) == (now - dev[d].Offset - SyncOffset) % dev[d].Period = 0

SendHeartbeat(force) ==
  LET due == {d \in DeviceIds : Active(d) /\ (force \/ IsTime(dev[d]))}
      slot(d) == Slot(dev[d], SyncOffset, now)
  IN /\ open
     /\ IF force THEN Odd ELSE UNCHANGED odd
     /\ dev' = [d \in DeviceIds |->
          IF d \notin due THEN dev[d]
          ELSE [UpdateNextTime(dev[d], SyncOffset) EXCEPT
                  !.sequence = IF force THEN @
                               ELSE IF @ + 1 > MaxSequence THEN 0 ELSE @ + 1]]
     /\ beats' = [d \in DeviceIds |->
          IF d \notin due THEN beats[d]
          ELSE IF force THEN <<>>
          ELSE Append(beats[d],
                      [slot |-> slot(d), sequence |-> dev[d].sequence])]
     /\ polled' = [d \in DeviceIds |->
          IF ~Active(d) \/ dev[d].Period = 0 THEN polled[d]
          ELSE IF force THEN -1
          ELSE IF OnGrid(d) THEN polled[d] ELSE slot(d)]
     /\ madeIn' = [d \in DeviceIds |->
          IF force /\ d \in due /\ dev[d].Period # 0 THEN slot(d) ELSE madeIn[d]]
     /\ UNCHANGED <<now, open, SyncOffset, tame>>

\* An address claim begins or is over.
Claim(d) ==
  /\ open /\ IF dev[d].claiming THEN UNCHANGED odd ELSE Odd
  /\ dev' = [dev EXCEPT ![d].claiming = ~@]
  /\ UNCHANGED <<now, open, SyncOffset, beats, polled, madeIn, tame>>

Tick ==
  /\ now < MaxTime /\ now' = now + 1
  /\ UNCHANGED <<open, SyncOffset, dev, beats, polled, madeIn, tame, odd>>

Next ==
  \/ Open
  \/ \E i \in Intervals, o \in Offsets :
       \/ SetHeartbeatIntervalAndOffset(i, o, DeviceIds)
       \/ \E d \in DeviceIds : SetHeartbeatIntervalAndOffset(i, o, {d})
  \/ \E force \in BOOLEAN : SendHeartbeat(force)
  \/ \E d \in DeviceIds : Claim(d)
  \/ Tick

\* However irregularly the program looks, whatever is forced in between and
\* however long an address is claimed: a period in which it has looked has
\* its heartbeat, no period has two, and their sequence numbers have no gap.
\* (Left out are a device that was disabled, which is not enabled again by the
\* settings it had before, but is by a heartbeat that is forced; and one that
\* had the default settings before Open(), which moves its grid but keeps the
\* time it was to send at.)
EachPeriodBeats ==
  \A d \in DeviceIds :
    LET b == beats[d]
    IN tame[d] =>
         /\ polled[d] > madeIn[d] => b # <<>> /\ b[Len(b)].slot >= polled[d]
         /\ \A k \in DOMAIN b : b[k].slot > madeIn[d]
         /\ \A k \in 2 .. Len(b) :
              /\ b[k - 1].slot < b[k].slot
              /\ b[k].sequence = (b[k - 1].sequence + 1) % (MaxSequence + 1)
=============================================================================
