------------------------------ MODULE ZnsProofs -----------------------------
(***************************************************************************)
(* Proofs about the zoned-namespace FTL (module Zns), for any number and   *)
(* size of zones, any write unit, random write area and write buffer.      *)
(*                                                                         *)
(* A command touches one zone.  Its effect is stated once, on the device   *)
(* in the midst of a command: the new descriptor of the zone and what it   *)
(* adds to each resource counter.  Lemma ZoneChange concludes that a       *)
(* sound device stays sound; an induction over the zones extends this to   *)
(* the commands with select_all.                                           *)
(***************************************************************************)
EXTENDS Zns, NumberFacts

(* The device between two updates of its counters. *)
RawDevices == [zone : [Zones -> ZoneRecords], res : [Resources -> Int], wbuf : Nat,
               zbuf : [Zones -> Nat], data : [Lbas -> {"ZERO", "OLDER", "LAST", "REFUSED"}]]

Counted(d, states) == {z \in Zones : d.zone[z].state \in states}
Areas(d) == {z \in Zones : d.zone[z].state \in Active /\ d.zone[z].zrwav}

ResOK(d) ==
    /\ d.res["OPEN"] = Cardinality(Counted(d, Opened))
    /\ d.res["ACTIVE"] = Cardinality(Counted(d, Active))
    /\ d.res["ZRWA"] >= Cardinality(Areas(d))

(* PointerAgrees for one zone.  No command leads to a read-only or offline *)
(* zone, and the pointer of a zone with a random write area moves in flush *)
(* groups.                                                                 *)
ZoneOK(z, zn) ==
    /\ zn.state \in Active \cup {"EMPTY", "FULL"}
    /\ zn.wp \in Slba(z)..(Slba(z) + ZoneSize)
    /\ zn.state = "EMPTY" => zn.wp = Slba(z) /\ ~zn.zrwav
    /\ zn.wp = Slba(z) + ZoneSize => zn.state = "FULL"
    /\ ~zn.zrwav => (zn.wp - Slba(z)) % WriteUnit = 0
    /\ zn.zrwav => (zn.wp - Slba(z)) % LbasZrwafg = 0

DevOK(d) ==
    /\ d \in Devices
    /\ ResOK(d)
    /\ \A z \in Zones : ZoneOK(z, d.zone[z])

Writes == {w \in [slba : Starts, len : Lens, ok : BOOLEAN] : Blocks(w) \subseteq Lbas}

(* What a block holds once every accepted write over it has been copied. *)
Settled(l) == dev.data[l] \in {IF l \in written THEN "LAST" ELSE "ZERO", "REFUSED"}

(* The inductive invariant.  A block counts as settled as soon as no copy  *)
(* over it is outstanding, also while a write over it is deferred.         *)
ZIInv ==
    /\ DevOK(dev)
    /\ BufferAccounted
    /\ backs \in [Buffers -> Nat] /\ lost \in Nat
    /\ issued \in 0..MaxWrites /\ bug \in BOOLEAN /\ written \subseteq Lbas
    /\ deferred \in Seq(Writes) /\ copies \subseteq Writes
    /\ \A w \in copies : w.ok => Blocks(w) \subseteq written
    /\ \A l \in Lbas : (\A w \in copies : l \notin Blocks(w)) => Settled(l)

-----------------------------------------------------------------------------
(* Numbers and blocks. *)

LEMMA ConstTypes ==
    /\ NZones \in Nat \ {0} /\ ZoneSize \in Nat \ {0} /\ SecsPerPg \in Nat \ {0}
    /\ Oneshot \in Nat \ {0} /\ LbasZrwafg \in Nat \ {0}
    /\ LbasZrwa \in Nat /\ ZrwaBuffer \in Nat /\ Initial \in Nat /\ MaxWrites \in Nat
    /\ Starts \subseteq Nat /\ Lens \subseteq Nat \ {0}
    /\ WriteUnit \in Nat \ {0}
<1>1. /\ NZones \in Nat \ {0} /\ ZoneSize \in Nat \ {0} /\ SecsPerPg \in Nat \ {0}
      /\ Oneshot \in Nat \ {0} /\ LbasZrwafg \in Nat \ {0}
      /\ LbasZrwa \in Nat /\ ZrwaBuffer \in Nat /\ Initial \in Nat /\ MaxWrites \in Nat
      /\ Starts \subseteq Nat /\ Lens \subseteq Nat \ {0}
  BY ZnsAssumption
<1>2. WriteUnit \in Nat \ {0}
  BY <1>1 DEF WriteUnit
<1> QED BY <1>1, <1>2

(* The blocks of a zone are the ones that ZoneOf maps to it. *)
LEMMA ZoneOfFacts ==
    ASSUME NEW z \in Nat
    PROVE  /\ Slba(z) \in Nat /\ Slba(z + 1) = Slba(z) + ZoneSize
           /\ \A l \in Nat : ZoneOf(l) \in Nat
           /\ \A l \in Nat : ZoneOf(l) = z <=> Slba(z) <= l /\ l < Slba(z) + ZoneSize
<1> USE ConstTypes
<1>1. Slba(z) \in Nat /\ Slba(z + 1) = Slba(z) + ZoneSize
  BY DEF Slba
<1>2. ASSUME NEW l \in Nat
      PROVE  ZoneOf(l) \in Nat /\ (ZoneOf(l) = z <=> Slba(z) <= l /\ l < Slba(z) + ZoneSize)
  <2>1. ZoneOf(l) \in Nat /\ l = ZoneSize * ZoneOf(l) + (l % ZoneSize) /\ l % ZoneSize \in 0..(ZoneSize - 1)
    BY DivFacts DEF ZoneOf
  <2>2. ZoneOf(l) = z => Slba(z) <= l /\ l < Slba(z) + ZoneSize
    BY <2>1 DEF Slba
  <2>3. ASSUME Slba(z) <= l, l < Slba(z) + ZoneSize PROVE ZoneOf(l) = z
    <3> DEFINE r == l - Slba(z)
    <3>1. r \in 0..(ZoneSize - 1) /\ l = z * ZoneSize + r
      BY <2>3, <1>1 DEF Slba
    <3> HIDE DEF r
    <3>2. (z * ZoneSize + r) \div ZoneSize = z
      BY <3>1, ModOf
    <3> QED BY <3>1, <3>2 DEF ZoneOf
  <2> QED BY <2>1, <2>2, <2>3
<1> QED BY <1>1, <1>2

LEMMA ZoneInRange ==
    ASSUME NEW l \in Lbas
    PROVE  l \in Nat /\ ZoneOf(l) \in Zones
<1> USE ConstTypes
<1>1. l \in Nat /\ l < NZones * ZoneSize
  <2>1. NZones * ZoneSize \in Nat
    OBVIOUS
  <2> QED BY <2>1 DEF Lbas
<1>2. ZoneOf(l) \in Nat /\ l >= ZoneSize * ZoneOf(l)
  <2>1. ZoneOf(l) \in Nat /\ l = ZoneSize * ZoneOf(l) + (l % ZoneSize) /\ l % ZoneSize \in 0..(ZoneSize - 1)
    BY <1>1, DivFacts DEF ZoneOf
  <2> QED BY <1>1, <2>1
<1>3. CASE ZoneOf(l) >= NZones
  <2>1. ZoneSize * (ZoneOf(l) - NZones) >= 0
    BY <1>2, <1>3
  <2>2. ZoneSize * (ZoneOf(l) - NZones) = ZoneSize * ZoneOf(l) - NZones * ZoneSize
    BY <1>2
  <2>3. NZones * ZoneSize \in Nat
    OBVIOUS
  <2> QED BY <1>1, <1>2, <2>1, <2>2, <2>3
<1> QED BY <1>1, <1>2, <1>3 DEF Zones

LEMMA ZoneEnds ==
    ASSUME NEW z \in Zones
    PROVE  /\ z \in Nat /\ Slba(z) \in Nat /\ Slba(z) \in Lbas
           /\ Slba(z) + ZoneSize <= NZones * ZoneSize
           /\ Elba(z) = Slba(z) + ZoneSize - 1
           /\ ZoneOf(Slba(z)) = z
           /\ \A l \in Lbas : ZoneOf(l) = z <=> Slba(z) <= l /\ l < Slba(z) + ZoneSize
<1> USE ConstTypes
<1>1. z \in Nat /\ z + 1 <= NZones
  BY DEF Zones
<1>2. /\ Slba(z) \in Nat /\ Slba(z + 1) = Slba(z) + ZoneSize
      /\ \A l \in Nat : ZoneOf(l) = z <=> Slba(z) <= l /\ l < Slba(z) + ZoneSize
  BY <1>1, ZoneOfFacts
<1>3. Slba(z) + ZoneSize <= NZones * ZoneSize
  <2>1. (NZones - (z + 1)) * ZoneSize >= 0
    BY <1>1
  <2>2. (NZones - (z + 1)) * ZoneSize = NZones * ZoneSize - (Slba(z) + ZoneSize)
    BY <1>1 DEF Slba
  <2>3. NZones * ZoneSize \in Nat
    OBVIOUS
  <2> QED BY <2>1, <2>2, <2>3, <1>2
<1>4. Slba(z) \in Lbas
  <2>1. NZones * ZoneSize \in Nat
    OBVIOUS
  <2> QED BY <1>2, <1>3, <2>1 DEF Lbas
<1>5. Elba(z) = Slba(z) + ZoneSize - 1
  BY <1>2 DEF Elba
<1> QED BY <1>1, <1>2, <1>3, <1>4, <1>5, ZoneInRange

-----------------------------------------------------------------------------
(* The counters. *)

In(p) == IF p THEN 1 ELSE 0

(* One zone gets the descriptor zn: the counted zones change by it. *)
LEMMA CountedChange ==
    ASSUME NEW d \in RawDevices, NEW e \in RawDevices, NEW z \in Zones, NEW zn,
           e.zone = [d.zone EXCEPT ![z] = zn]
    PROVE  /\ \A states :
                 /\ Cardinality(Counted(d, states)) \in 0..NZones
                 /\ Cardinality(Counted(e, states)) \in 0..NZones
                 /\ Cardinality(Counted(e, states)) =
                       Cardinality(Counted(d, states)) + In(zn.state \in states) - In(d.zone[z].state \in states)
           /\ Cardinality(Areas(d)) \in Nat /\ Cardinality(Areas(e)) \in Nat
           /\ Cardinality(Areas(e)) =
                 Cardinality(Areas(d)) + In(zn.state \in Active /\ zn.zrwav)
                                       - In(d.zone[z].state \in Active /\ d.zone[z].zrwav)
<1>1. IsFiniteSet(Zones) /\ Cardinality(Zones) = NZones
  <2>1. 0 \in Int /\ NZones - 1 \in Int /\ ~(0 > NZones - 1) /\ NZones - 1 - 0 + 1 = NZones
    BY ConstTypes
  <2> QED BY <2>1, FS_Interval DEF Zones
<1>2. d.zone \in [Zones -> ZoneRecords] /\ e.zone \in [Zones -> ZoneRecords]
  BY DEF RawDevices
<1>3. e.zone[z] = zn /\ \A y \in Zones \ {z} : e.zone[y] = d.zone[y]
  BY <1>2
<1>4. ASSUME NEW states
      PROVE  /\ Cardinality(Counted(d, states)) \in 0..NZones
             /\ Cardinality(Counted(e, states)) \in 0..NZones
             /\ Cardinality(Counted(e, states)) =
                   Cardinality(Counted(d, states)) + In(zn.state \in states) - In(d.zone[z].state \in states)
  <2>1. Counted(d, states) \in SUBSET Zones /\ Counted(e, states) \in SUBSET Zones
    BY DEF Counted
  <2>2. /\ IsFiniteSet(Counted(d, states)) /\ IsFiniteSet(Counted(e, states))
        /\ Cardinality(Counted(d, states)) <= NZones /\ Cardinality(Counted(e, states)) <= NZones
    BY <1>1, <2>1, FS_Subset
  <2>3. Counted(d, states) \ {z} = Counted(e, states) \ {z}
    BY <1>3 DEF Counted
  <2>4. /\ z \in Counted(d, states) <=> d.zone[z].state \in states
        /\ z \in Counted(e, states) <=> zn.state \in states
    BY <1>3 DEF Counted
  <2>5. /\ Cardinality(Counted(d, states)) \in Nat /\ Cardinality(Counted(e, states)) \in Nat
        /\ Cardinality(Counted(e, states)) = Cardinality(Counted(d, states))
              + (IF z \in Counted(e, states) THEN 1 ELSE 0) - (IF z \in Counted(d, states) THEN 1 ELSE 0)
    BY <2>2, <2>3, CountStep
  <2> QED BY <2>2, <2>4, <2>5, ConstTypes DEF In
<1>5. /\ Cardinality(Areas(d)) \in Nat /\ Cardinality(Areas(e)) \in Nat
      /\ Cardinality(Areas(e)) =
            Cardinality(Areas(d)) + In(zn.state \in Active /\ zn.zrwav)
                                  - In(d.zone[z].state \in Active /\ d.zone[z].zrwav)
  <2>1. Areas(d) \in SUBSET Zones
    BY DEF Areas
  <2>2. IsFiniteSet(Areas(d))
    BY <1>1, <2>1, FS_Subset
  <2>3. Areas(d) \ {z} = Areas(e) \ {z}
    BY <1>3 DEF Areas
  <2>4. /\ z \in Areas(d) <=> d.zone[z].state \in Active /\ d.zone[z].zrwav
        /\ z \in Areas(e) <=> zn.state \in Active /\ zn.zrwav
    BY <1>3 DEF Areas
  <2>5. /\ Cardinality(Areas(d)) \in Nat /\ Cardinality(Areas(e)) \in Nat
        /\ Cardinality(Areas(e)) = Cardinality(Areas(d))
              + (IF z \in Areas(e) THEN 1 ELSE 0) - (IF z \in Areas(d) THEN 1 ELSE 0)
    BY <2>2, <2>3, CountStep
  <2> QED BY <2>4, <2>5 DEF In
<1> QED BY <1>4, <1>5

(* A zone's own resources are counted, so there is one to release. *)
Held(d, z) ==
    /\ d.res["OPEN"] \in 0..NZones /\ d.res["ACTIVE"] \in 0..NZones /\ d.res["ZRWA"] \in 0..NZones
    /\ d.zone[z].state \in Opened => d.res["OPEN"] >= 1
    /\ d.zone[z].state \in Active => d.res["ACTIVE"] >= 1
    /\ d.zone[z].state \in Active /\ d.zone[z].zrwav => d.res["ZRWA"] >= 1

LEMMA HeldIsCounted ==
    ASSUME NEW d, DevOK(d), NEW z \in Zones
    PROVE  Held(d, z)
<1>1. d.res \in [Resources -> 0..NZones] /\ d.zone \in [Zones -> ZoneRecords]
  BY DEF DevOK, Devices
<1>2. IsFiniteSet(Zones)
  BY ConstTypes, FS_Interval DEF Zones
<1>3. ASSUME NEW S, S \in SUBSET Zones, z \in S PROVE Cardinality(S) >= 1
  <2>1. IsFiniteSet(S)
    BY <1>2, <1>3, FS_Subset
  <2>2. Cardinality(S) \in Nat /\ Cardinality(S) # 0
    BY <1>3, <2>1, FS_CardinalityType, FS_EmptySet
  <2> QED BY <2>2
<1>4. d.zone[z].state \in Opened => d.res["OPEN"] >= 1
  <2>1. Counted(d, Opened) \in SUBSET Zones /\ (d.zone[z].state \in Opened => z \in Counted(d, Opened))
    BY DEF Counted
  <2> QED BY <1>3, <2>1 DEF DevOK, ResOK
<1>5. d.zone[z].state \in Active => d.res["ACTIVE"] >= 1
  <2>1. Counted(d, Active) \in SUBSET Zones /\ (d.zone[z].state \in Active => z \in Counted(d, Active))
    BY DEF Counted
  <2> QED BY <1>3, <2>1 DEF DevOK, ResOK
<1>6. d.zone[z].state \in Active /\ d.zone[z].zrwav => d.res["ZRWA"] >= 1
  <2>1. /\ Areas(d) \in SUBSET Zones
        /\ d.zone[z].state \in Active /\ d.zone[z].zrwav => z \in Areas(d)
    BY DEF Areas
  <2>2. CASE d.zone[z].state \in Active /\ d.zone[z].zrwav
    <3>1. Cardinality(Areas(d)) >= 1
      BY <1>3, <2>1, <2>2
    <3>2. Cardinality(Areas(d)) \in Nat
      BY <1>2, <2>1, FS_Subset, FS_CardinalityType
    <3> QED BY <3>1, <3>2, <1>1 DEF DevOK, ResOK, Resources
  <2> QED BY <2>2
<1> QED BY <1>1, <1>4, <1>5, <1>6 DEF Resources, Held

(* A device stays sound when one zone gets a sound descriptor and the      *)
(* counters change by what this zone now holds; for the random write       *)
(* areas, by at least that much.                                           *)
LEMMA ZoneChange ==
    ASSUME NEW d, DevOK(d), NEW e \in RawDevices, NEW z \in Zones, NEW zn, ZoneOK(z, zn),
           e.zone = [d.zone EXCEPT ![z] = zn],
           e.res["OPEN"] = d.res["OPEN"] + In(zn.state \in Opened) - In(d.zone[z].state \in Opened),
           e.res["ACTIVE"] = d.res["ACTIVE"] + In(zn.state \in Active) - In(d.zone[z].state \in Active),
           e.res["ZRWA"] >= d.res["ZRWA"] + In(zn.state \in Active /\ zn.zrwav)
                                          - In(d.zone[z].state \in Active /\ d.zone[z].zrwav),
           e.res["ZRWA"] <= NZones
    PROVE  DevOK(e)
<1>1. d \in Devices /\ ResOK(d) /\ d \in RawDevices
  BY ConstTypes DEF DevOK, Devices, RawDevices
<1>2. d.res \in [Resources -> 0..NZones] /\ e.res \in [Resources -> Int]
  BY <1>1 DEF Devices, RawDevices
<1>3. ResOK(e) /\ e.res["OPEN"] \in 0..NZones /\ e.res["ACTIVE"] \in 0..NZones /\ e.res["ZRWA"] \in 0..NZones
  <2>1. e.res["OPEN"] \in 0..NZones /\ e.res["OPEN"] = Cardinality(Counted(e, Opened))
    <3>1. /\ Cardinality(Counted(e, Opened)) \in 0..NZones
          /\ Cardinality(Counted(e, Opened)) =
                Cardinality(Counted(d, Opened)) + In(zn.state \in Opened) - In(d.zone[z].state \in Opened)
      BY <1>1, CountedChange
    <3> QED BY <3>1, <1>1 DEF ResOK
  <2>2. e.res["ACTIVE"] \in 0..NZones /\ e.res["ACTIVE"] = Cardinality(Counted(e, Active))
    <3>1. /\ Cardinality(Counted(e, Active)) \in 0..NZones
          /\ Cardinality(Counted(e, Active)) =
                Cardinality(Counted(d, Active)) + In(zn.state \in Active) - In(d.zone[z].state \in Active)
      BY <1>1, CountedChange
    <3> QED BY <3>1, <1>1 DEF ResOK
  <2>3. e.res["ZRWA"] \in 0..NZones /\ e.res["ZRWA"] >= Cardinality(Areas(e))
    <3>1. /\ Cardinality(Areas(d)) \in Nat /\ Cardinality(Areas(e)) \in Nat
          /\ Cardinality(Areas(e)) =
                Cardinality(Areas(d)) + In(zn.state \in Active /\ zn.zrwav)
                                      - In(d.zone[z].state \in Active /\ d.zone[z].zrwav)
      BY <1>1, CountedChange
    <3>2. d.res["ZRWA"] \in Int /\ e.res["ZRWA"] \in Int
      BY <1>2, ConstTypes DEF Resources
    <3>3. \A p : In(p) \in {0, 1}
      BY DEF In
    <3>4. d.res["ZRWA"] >= Cardinality(Areas(d))
      BY <1>1 DEF ResOK
    <3> QED BY <3>1, <3>2, <3>3, <3>4, ConstTypes
  <2> QED BY <2>1, <2>2, <2>3 DEF ResOK
<1>4. e \in Devices
  <2>1. e.res \in [Resources -> 0..NZones]
    BY <1>2, <1>3 DEF Resources
  <2> QED BY <2>1 DEF RawDevices, Devices
<1>5. ASSUME NEW y \in Zones PROVE ZoneOK(y, e.zone[y])
  <2>1. d.zone \in [Zones -> ZoneRecords]
    BY <1>1 DEF Devices
  <2>2. CASE y = z
    BY <2>1, <2>2
  <2>3. CASE y # z
    <3>1. e.zone[y] = d.zone[y]
      BY <2>1, <2>3
    <3> QED BY <3>1 DEF DevOK
  <2> QED BY <2>2, <2>3
<1> QED BY <1>3, <1>4, <1>5 DEF DevOK

-----------------------------------------------------------------------------
(* The updates a command is made of. *)

(* Nothing but the named parts of the device changes. *)
SameRest(d, e) == e.wbuf = d.wbuf /\ e.zbuf = d.zbuf /\ e.data = d.data

LEMMA AcquireFacts ==
    ASSUME NEW d \in RawDevices, NEW r \in Resources
    PROVE  /\ Acquire(d, r) \in RawDevices /\ SameRest(d, Acquire(d, r))
           /\ Acquire(d, r).zone = d.zone
           /\ Acquire(d, r).res[r] = d.res[r] + 1
           /\ \A q \in Resources \ {r} : Acquire(d, r).res[q] = d.res[q]
  BY DEF Acquire, RawDevices, SameRest

(* A counter that is not zero is decremented: it does not wrap. *)
LEMMA ReleaseFacts ==
    ASSUME NEW d \in RawDevices, NEW r \in Resources, d.res[r] \in 1..NZones
    PROVE  /\ Release(d, r) \in RawDevices /\ SameRest(d, Release(d, r))
           /\ Release(d, r).zone = d.zone
           /\ Release(d, r).res[r] = d.res[r] - 1
           /\ \A q \in Resources \ {r} : Release(d, r).res[q] = d.res[q]
<1> DEFINE n == d.res[r] - 1
<1>1. n \in 0..(CntMod - 1) /\ CntMod \in Nat \ {0} /\ n \in Int
  BY ConstTypes, ZnsAssumption
<1>2. n % CntMod = n
  <2> HIDE DEF n
  <2>1. (0 * CntMod + n) % CntMod = n
    BY <1>1, ModOf
  <2>2. 0 * CntMod + n = n
    BY <1>1
  <2> QED BY <2>1, <2>2
<1>3. Release(d, r) = [d EXCEPT !.res = [d.res EXCEPT ![r] = n]]
  BY <1>2 DEF Release, RawDevices
<1> HIDE DEF n
<1>4. /\ Release(d, r) \in RawDevices /\ SameRest(d, Release(d, r))
      /\ Release(d, r).zone = d.zone
      /\ Release(d, r).res[r] = n
      /\ \A q \in Resources \ {r} : Release(d, r).res[q] = d.res[q]
  BY <1>1, <1>3 DEF RawDevices, SameRest
<1> QED BY <1>4 DEF n

LEMMA ChangeStateFacts ==
    ASSUME NEW d \in RawDevices, NEW z \in Zones, NEW s \in ZoneStates
    PROVE  /\ ChangeState(d, z, s) \in RawDevices /\ SameRest(d, ChangeState(d, z, s))
           /\ ChangeState(d, z, s).res = d.res
           /\ ChangeState(d, z, s).zone =
                 [d.zone EXCEPT ![z] = [state |-> s, wp |-> d.zone[z].wp, zrwav |-> d.zone[z].zrwav]]
<1> DEFINE zn == [state |-> s, wp |-> d.zone[z].wp, zrwav |-> d.zone[z].zrwav]
<1>1. d.zone \in [Zones -> ZoneRecords] /\ d.zone[z] \in ZoneRecords
  BY DEF RawDevices
<1>2. [d.zone[z] EXCEPT !.state = s] = zn /\ zn \in ZoneRecords
  BY <1>1 DEF ZoneRecords
<1>3. ChangeState(d, z, s) = [d EXCEPT !.zone = [d.zone EXCEPT ![z] = zn]]
  BY <1>2 DEF ChangeState, RawDevices
<1> HIDE DEF zn
<1>4. [d.zone EXCEPT ![z] = zn] \in [Zones -> ZoneRecords]
  BY <1>1, <1>2
<1>5. /\ ChangeState(d, z, s) \in RawDevices /\ SameRest(d, ChangeState(d, z, s))
      /\ ChangeState(d, z, s).res = d.res
      /\ ChangeState(d, z, s).zone = [d.zone EXCEPT ![z] = zn]
  BY <1>3, <1>4 DEF RawDevices, SameRest
<1> QED BY <1>2, <1>5 DEF zn

(* Finish, reset and the last flush release all that the zone holds. *)
LEMMA DeactivateFacts ==
    ASSUME NEW d \in RawDevices, NEW z \in Zones, Held(d, z)
    PROVE  /\ Deactivate(d, z) \in RawDevices /\ SameRest(d, Deactivate(d, z))
           /\ Deactivate(d, z).zone = d.zone
           /\ Deactivate(d, z).res["OPEN"] = d.res["OPEN"] - In(d.zone[z].state \in Opened)
           /\ Deactivate(d, z).res["ACTIVE"] = d.res["ACTIVE"] - In(d.zone[z].state \in Active)
           /\ Deactivate(d, z).res["ZRWA"] = d.res["ZRWA"] - In(d.zone[z].state \in Active /\ d.zone[z].zrwav)
<1> DEFINE s  == d.zone[z].state
           d1 == IF s \in Opened THEN Release(d, "OPEN") ELSE d
           d2 == IF s \in Active THEN Release(d1, "ACTIVE") ELSE d1
           d3 == IF s \in Active /\ d.zone[z].zrwav THEN Release(d2, "ZRWA") ELSE d2
<1>0. "OPEN" \in Resources /\ "ACTIVE" \in Resources /\ "ZRWA" \in Resources
  BY DEF Resources
<1>1. /\ d.res["OPEN"] \in 0..NZones /\ d.res["ACTIVE"] \in 0..NZones /\ d.res["ZRWA"] \in 0..NZones
      /\ s \in Opened => d.res["OPEN"] >= 1
      /\ s \in Active => d.res["ACTIVE"] >= 1
      /\ s \in Active /\ d.zone[z].zrwav => d.res["ZRWA"] >= 1
  BY DEF Held
<1>2. Deactivate(d, z) = d3
  BY DEF Deactivate
<1> HIDE DEF s
<1>3. /\ d1 \in RawDevices /\ SameRest(d, d1) /\ d1.zone = d.zone
      /\ d1.res["OPEN"] = d.res["OPEN"] - In(s \in Opened)
      /\ d1.res["ACTIVE"] = d.res["ACTIVE"] /\ d1.res["ZRWA"] = d.res["ZRWA"]
  <2>1. CASE s \in Opened
    <3>1. d.res["OPEN"] \in 1..NZones
      BY <1>1, <2>1, ConstTypes
    <3> QED BY <1>0, <2>1, <3>1, ReleaseFacts DEF In
  <2>2. CASE s \notin Opened
    BY <1>1, <2>2, ConstTypes DEF In, SameRest
  <2> QED BY <2>1, <2>2
<1> HIDE DEF d1
<1>4. /\ d2 \in RawDevices /\ SameRest(d, d2) /\ d2.zone = d.zone
      /\ d2.res["OPEN"] = d.res["OPEN"] - In(s \in Opened)
      /\ d2.res["ACTIVE"] = d.res["ACTIVE"] - In(s \in Active) /\ d2.res["ZRWA"] = d.res["ZRWA"]
  <2>1. CASE s \in Active
    <3>1. d1.res["ACTIVE"] \in 1..NZones
      BY <1>1, <1>3, <2>1, ConstTypes
    <3> QED BY <1>0, <1>3, <2>1, <3>1, ReleaseFacts DEF In, SameRest
  <2>2. CASE s \notin Active
    BY <1>1, <1>3, <2>2, ConstTypes DEF In
  <2> QED BY <2>1, <2>2
<1> HIDE DEF d2
<1>5. /\ d3 \in RawDevices /\ SameRest(d, d3) /\ d3.zone = d.zone
      /\ d3.res["OPEN"] = d.res["OPEN"] - In(s \in Opened)
      /\ d3.res["ACTIVE"] = d.res["ACTIVE"] - In(s \in Active)
      /\ d3.res["ZRWA"] = d.res["ZRWA"] - In(s \in Active /\ d.zone[z].zrwav)
  <2>1. CASE s \in Active /\ d.zone[z].zrwav
    <3>1. d2.res["ZRWA"] \in 1..NZones
      BY <1>1, <1>4, <2>1, ConstTypes
    <3> QED BY <1>0, <1>4, <2>1, <3>1, ReleaseFacts DEF In, SameRest
  <2>2. CASE ~(s \in Active /\ d.zone[z].zrwav)
    BY <1>1, <1>4, <2>2, ConstTypes DEF In
  <2> QED BY <2>1, <2>2
<1> HIDE DEF d3
<1> QED BY <1>2, <1>5 DEF s

-----------------------------------------------------------------------------
(* Zone management. *)

(* The step of ZonesMoveOn for one zone. *)
MovesOn(d, e, z) ==
    \/ e.zone[z].state = "EMPTY" /\ e.zone[z].wp = Slba(z) /\ \A l \in ZoneBlocks(z) : e.data[l] = "ZERO"
    \/ /\ e.zone[z].wp >= d.zone[z].wp
       /\ d.zone[z].state = "FULL" => e.zone[z].state = "FULL"
       /\ ~d.zone[z].zrwav => \A l \in Slba(z)..(d.zone[z].wp - 1) :
                                 e.data[l] = "OLDER" => d.data[l] = "OLDER"

(* What a management command other than a reset does to a sound device. *)
Managed(d, out, z) ==
    /\ DevOK(out.dev)
    /\ out.dev.wbuf = d.wbuf /\ out.dev.data = d.data
    /\ \A y \in Zones \ {z} : out.dev.zone[y] = d.zone[y]
    /\ out.dev.zone[z].wp >= d.zone[z].wp
    /\ d.zone[z].state = "FULL" => out.dev.zone[z].state = "FULL"
    /\ out.status # "SUCCESS" => out.dev.zone = d.zone /\ out.dev.res = d.res

LEMMA DevFacts ==
    ASSUME NEW d, DevOK(d), NEW z \in Zones
    PROVE  /\ d \in RawDevices /\ d.zone \in [Zones -> ZoneRecords] /\ d.res \in [Resources -> 0..NZones]
           /\ d.res["OPEN"] \in 0..NZones /\ d.res["ACTIVE"] \in 0..NZones /\ d.res["ZRWA"] \in 0..NZones
           /\ d.zone[z] \in ZoneRecords /\ d.zone[z].wp \in Nat /\ d.zone[z].zrwav \in BOOLEAN
           /\ d.zone[z].state \in Active \cup {"EMPTY", "FULL"} /\ ZoneOK(z, d.zone[z])
<1>1. /\ d \in RawDevices /\ d.zone \in [Zones -> ZoneRecords] /\ d.res \in [Resources -> 0..NZones]
  BY ConstTypes DEF DevOK, Devices, RawDevices
<1>2. d.zone[z] \in ZoneRecords /\ ZoneOK(z, d.zone[z])
  BY <1>1 DEF DevOK
<1>3. d.zone[z].wp \in Nat /\ d.zone[z].zrwav \in BOOLEAN
  BY <1>2 DEF ZoneRecords
<1> QED BY <1>1, <1>2, <1>3 DEF ZoneOK, Resources

(* A command that is refused, or finds nothing to do. *)
LEMMA NothingDone ==
    ASSUME NEW d, DevOK(d), NEW z \in Zones, NEW s
    PROVE  Managed(d, Fail(d, s), z) /\ Managed(d, Done(d), z)
<1>1. d.zone[z].wp \in Nat
  BY DevFacts
<1> QED BY <1>1 DEF Managed, Fail, Done

LEMMA CloseZoneKeeps ==
    ASSUME NEW d, DevOK(d), NEW z \in Zones
    PROVE  Managed(d, CloseZone(d, z), z)
<1> DEFINE s  == d.zone[z].state
           c  == ChangeState(d, z, "CLOSED")
           e  == Release(c, "OPEN")
           zn == [state |-> "CLOSED", wp |-> d.zone[z].wp, zrwav |-> d.zone[z].zrwav]
<1>0. /\ d \in RawDevices /\ d.zone \in [Zones -> ZoneRecords] /\ d.zone[z].wp \in Nat
      /\ ZoneOK(z, d.zone[z]) /\ d.res["ZRWA"] \in 0..NZones /\ d.res["ACTIVE"] \in 0..NZones
  BY DevFacts
<1>1. CASE s \in Opened
  <2>1. c \in RawDevices /\ SameRest(d, c) /\ c.res = d.res /\ c.zone = [d.zone EXCEPT ![z] = zn]
    BY <1>0, ChangeStateFacts DEF ZoneStates, Active
  <2>2. d.res["OPEN"] \in 1..NZones
    BY <1>1, HeldIsCounted, ConstTypes DEF Held
  <2> HIDE DEF c
  <2>3. /\ e \in RawDevices /\ SameRest(c, e) /\ e.zone = c.zone
        /\ e.res["OPEN"] = d.res["OPEN"] - 1
        /\ e.res["ACTIVE"] = d.res["ACTIVE"] /\ e.res["ZRWA"] = d.res["ZRWA"]
    BY <2>1, <2>2, ReleaseFacts DEF Resources
  <2>4. ZoneOK(z, zn)
    BY <1>0, <1>1 DEF ZoneOK, Active, Opened
  <2>5. DevOK(e)
    <3>1. zn.state = "CLOSED" /\ zn.zrwav = d.zone[z].zrwav
      OBVIOUS
    <3> HIDE DEF e, zn
    <3> QED BY <1>0, <1>1, <2>1, <2>2, <2>3, <2>4, <3>1, ZoneChange DEF In, Opened, Active
  <2>6. CloseZone(d, z) = [dev |-> e, status |-> "SUCCESS"]
    BY <1>1 DEF CloseZone, Done, Opened, c
  <2> HIDE DEF e
  <2> QED BY <1>0, <1>1, <2>1, <2>3, <2>5, <2>6 DEF Managed, SameRest, Opened
<1>2. CASE s \notin Opened
  <2>1. CloseZone(d, z) = Done(d) \/ CloseZone(d, z) = Fail(d, "INVALID_TRANSITION")
    BY <1>2 DEF CloseZone
  <2> QED BY <2>1, NothingDone
<1> QED BY <1>1, <1>2

LEMMA FinishZoneKeeps ==
    ASSUME NEW d, DevOK(d), NEW z \in Zones
    PROVE  Managed(d, FinishZone(d, z), z)
<1> DEFINE c  == Deactivate(d, z)
           e  == ChangeState(c, z, "FULL")
           zn == [state |-> "FULL", wp |-> d.zone[z].wp, zrwav |-> d.zone[z].zrwav]
<1>0. /\ d \in RawDevices /\ d.zone \in [Zones -> ZoneRecords] /\ d.zone[z].wp \in Nat
      /\ ZoneOK(z, d.zone[z]) /\ d.zone[z].state \in Active \cup {"EMPTY", "FULL"}
      /\ d.res["OPEN"] \in 0..NZones /\ d.res["ACTIVE"] \in 0..NZones /\ d.res["ZRWA"] \in 0..NZones
  BY DevFacts
<1>1. /\ c \in RawDevices /\ SameRest(d, c) /\ c.zone = d.zone
      /\ c.res["OPEN"] = d.res["OPEN"] - In(d.zone[z].state \in Opened)
      /\ c.res["ACTIVE"] = d.res["ACTIVE"] - In(d.zone[z].state \in Active)
      /\ c.res["ZRWA"] = d.res["ZRWA"] - In(d.zone[z].state \in Active /\ d.zone[z].zrwav)
  BY <1>0, HeldIsCounted, DeactivateFacts
<1> HIDE DEF c
<1>2. e \in RawDevices /\ SameRest(c, e) /\ e.res = c.res /\ e.zone = [d.zone EXCEPT ![z] = zn]
  BY <1>1, ChangeStateFacts DEF ZoneStates
<1>3. ZoneOK(z, zn)
  BY <1>0 DEF ZoneOK
<1>4. FinishZone(d, z) = [dev |-> e, status |-> "SUCCESS"]
  BY <1>0 DEF FinishZone, Done, c
<1>5. zn.state = "FULL" /\ zn.wp = d.zone[z].wp
  OBVIOUS
<1> HIDE DEF e, zn
<1>6. DevOK(e)
  <2>1. In(zn.state \in Opened) = 0 /\ In(zn.state \in Active) = 0 /\ In(zn.state \in Active /\ zn.zrwav) = 0
    BY <1>5 DEF In, Opened, Active
  <2>2. \A b : In(b) \in {0, 1}
    BY DEF In
  <2> QED BY <1>0, <1>1, <1>2, <1>3, <2>1, <2>2, ConstTypes, ZoneChange
<1> QED BY <1>0, <1>1, <1>2, <1>4, <1>5, <1>6 DEF Managed, SameRest

LEMMA OpenZoneKeeps ==
    ASSUME NEW d, DevOK(d), NEW z \in Zones, NEW zrwa \in BOOLEAN
    PROVE  Managed(d, OpenZone(d, z, zrwa), z)
<1> DEFINE s  == d.zone[z].state
           a  == IF zrwa THEN [Acquire(d, "ZRWA") EXCEPT !.zone[z].zrwav = TRUE] ELSE d
<1>0. /\ d \in RawDevices /\ d.zone \in [Zones -> ZoneRecords] /\ d.zone[z] \in ZoneRecords
      /\ d.zone[z].wp \in Nat /\ d.zone[z].zrwav \in BOOLEAN
      /\ ZoneOK(z, d.zone[z]) /\ d.zone[z].state \in Active \cup {"EMPTY", "FULL"}
      /\ d.res["OPEN"] \in 0..NZones /\ d.res["ACTIVE"] \in 0..NZones /\ d.res["ZRWA"] \in 0..NZones
  BY DevFacts
<1>i. \A b : In(b) \in {0, 1}
  BY DEF In
<1>r. "OPEN" \in Resources /\ "ACTIVE" \in Resources /\ "ZRWA" \in Resources /\ "OPENED_EXPL" \in ZoneStates
  BY DEF Resources, ZoneStates, Active, Opened
<1>1. CASE s = "EMPTY" /\ ~Exhausted(d, "ACTIVE") /\ ~Exhausted(d, "OPEN") /\ ~(zrwa /\ Exhausted(d, "ZRWA"))
  <2> DEFINE b  == Acquire(a, "ACTIVE")
             c  == Acquire(b, "OPEN")
             e  == ChangeState(c, z, "OPENED_EXPL")
             ar == IF zrwa THEN [d.zone[z] EXCEPT !.zrwav = TRUE] ELSE d.zone[z]
             zn == [state |-> "OPENED_EXPL", wp |-> ar.wp, zrwav |-> ar.zrwav]
  <2>0. ar \in ZoneRecords /\ ar.wp = d.zone[z].wp /\ ar.zrwav \in BOOLEAN /\ (ar.zrwav <=> zrwa)
    <3>1. CASE zrwa
      BY <1>0, <3>1 DEF ZoneRecords
    <3>2. CASE ~zrwa
      BY <1>0, <1>1, <3>2 DEF ZoneOK
    <3> QED BY <3>1, <3>2
  <2>1. /\ a \in RawDevices /\ SameRest(d, a) /\ a.zone = [d.zone EXCEPT ![z] = ar]
        /\ a.res["ZRWA"] = d.res["ZRWA"] + In(zrwa)
        /\ a.res["OPEN"] = d.res["OPEN"] /\ a.res["ACTIVE"] = d.res["ACTIVE"]
    <3>1. CASE zrwa
      <4> DEFINE g == Acquire(d, "ZRWA")
      <4>1. /\ g \in RawDevices /\ SameRest(d, g) /\ g.zone = d.zone
            /\ g.res["ZRWA"] = d.res["ZRWA"] + 1
            /\ g.res["OPEN"] = d.res["OPEN"] /\ g.res["ACTIVE"] = d.res["ACTIVE"]
        BY <1>0, <1>r, AcquireFacts
      <4>2. a = [g EXCEPT !.zone[z].zrwav = TRUE] /\ ar = [d.zone[z] EXCEPT !.zrwav = TRUE]
        BY <3>1
      <4> HIDE DEF g, a, ar
      <4>3. a = [g EXCEPT !.zone = [d.zone EXCEPT ![z] = ar]]
        BY <4>1, <4>2 DEF RawDevices
      <4>4. [d.zone EXCEPT ![z] = ar] \in [Zones -> ZoneRecords]
        BY <1>0, <2>0
      <4>5. a \in RawDevices /\ SameRest(d, a) /\ a.zone = [d.zone EXCEPT ![z] = ar] /\ a.res = g.res
        BY <4>1, <4>3, <4>4 DEF RawDevices, SameRest
      <4> QED BY <3>1, <4>1, <4>5 DEF In
    <3>2. CASE ~zrwa
      <4>1. ar = d.zone[z] /\ a = d /\ In(zrwa) = 0
        BY <3>2 DEF In
      <4> HIDE DEF ar, a
      <4> QED BY <1>0, <4>1 DEF SameRest
    <3> QED BY <3>1, <3>2
  <2> HIDE DEF a
  <2>2. /\ b \in RawDevices /\ SameRest(a, b) /\ b.zone = a.zone
        /\ b.res["ACTIVE"] = d.res["ACTIVE"] + 1
        /\ b.res["OPEN"] = d.res["OPEN"] /\ b.res["ZRWA"] = a.res["ZRWA"]
    BY <2>1, <1>r, AcquireFacts
  <2> HIDE DEF b
  <2>3. /\ c \in RawDevices /\ SameRest(b, c) /\ c.zone = a.zone
        /\ c.res["OPEN"] = d.res["OPEN"] + 1
        /\ c.res["ACTIVE"] = d.res["ACTIVE"] + 1 /\ c.res["ZRWA"] = a.res["ZRWA"]
    BY <2>2, <1>r, AcquireFacts
  <2> HIDE DEF c
  <2>4. e \in RawDevices /\ SameRest(c, e) /\ e.res = c.res /\ e.zone = [d.zone EXCEPT ![z] = zn]
    <3>1. c.zone[z] = ar
      <4> HIDE DEF ar
      <4> QED BY <1>0, <2>1, <2>3
    <3>2. /\ e \in RawDevices /\ SameRest(c, e) /\ e.res = c.res
          /\ e.zone = [c.zone EXCEPT ![z] = [state |-> "OPENED_EXPL", wp |-> c.zone[z].wp, zrwav |-> c.zone[z].zrwav]]
      BY <2>3, <1>r, ChangeStateFacts
    <3>3. e.zone = [c.zone EXCEPT ![z] = zn]
      BY <3>1, <3>2
    <3> HIDE DEF e, zn, ar
    <3> QED BY <1>0, <2>1, <2>3, <3>2, <3>3
  <2>5. ZoneOK(z, zn)
    <3>1. d.zone[z].wp = Slba(z) /\ Slba(z) \in Nat /\ ~d.zone[z].zrwav
      BY <1>0, <1>1, ZoneEnds DEF ZoneOK
    <3>2. Slba(z) - Slba(z) = 0 * LbasZrwafg /\ Slba(z) - Slba(z) \in Nat
      BY <3>1, ConstTypes
    <3>3. (d.zone[z].wp - Slba(z)) % LbasZrwafg = 0
      BY <3>1, <3>2, ConstTypes, MultipleOf
    <3>4. (d.zone[z].wp - Slba(z)) % WriteUnit = 0
      BY <1>0, <3>1 DEF ZoneOK
    <3>5. zn.state = "OPENED_EXPL" /\ zn.wp = d.zone[z].wp
      BY <2>0
    <3> HIDE DEF zn
    <3> QED BY <3>1, <3>3, <3>4, <3>5, ConstTypes DEF ZoneOK, Active, Opened
  <2>6. OpenZone(d, z, zrwa) = [dev |-> e, status |-> "SUCCESS"]
    BY <1>1 DEF OpenZone, Done, Opened, a, b, c
  <2>7. zn.state = "OPENED_EXPL" /\ zn.wp = d.zone[z].wp /\ (zn.zrwav <=> zrwa)
    <3>1. zn.state = "OPENED_EXPL" /\ zn.wp = ar.wp /\ zn.zrwav = ar.zrwav
      OBVIOUS
    <3> HIDE DEF zn, ar
    <3> QED BY <2>0, <3>1
  <2> HIDE DEF e, zn, ar
  <2>8. DevOK(e)
    <3>1. /\ In(zn.state \in Opened) = 1 /\ In(zn.state \in Active) = 1
          /\ In(zn.state \in Active /\ zn.zrwav) = In(zrwa)
      BY <2>7 DEF In, Opened, Active
    <3>2. /\ In(s \in Opened) = 0 /\ In(s \in Active) = 0
          /\ In(s \in Active /\ d.zone[z].zrwav) = 0
      BY <1>1 DEF In, Opened, Active
    <3>3. d.res["ZRWA"] + In(zrwa) <= NZones
      BY <1>0, <1>1, ConstTypes DEF In, Exhausted
    <3>4. e.res["ZRWA"] = d.res["ZRWA"] + In(zrwa) /\ e.res["OPEN"] = d.res["OPEN"] + 1
          /\ e.res["ACTIVE"] = d.res["ACTIVE"] + 1
      BY <2>1, <2>3, <2>4
    <3> QED BY <1>0, <1>i, <2>4, <2>5, <3>1, <3>2, <3>3, <3>4, ConstTypes, ZoneChange
  <2> QED BY <1>0, <1>1, <2>1, <2>2, <2>3, <2>4, <2>6, <2>7, <2>8 DEF Managed, SameRest
<1>2. CASE s = "CLOSED" /\ ~Exhausted(d, "OPEN")
  <2> DEFINE c  == Acquire(d, "OPEN")
             e  == ChangeState(c, z, "OPENED_EXPL")
             zn == [state |-> "OPENED_EXPL", wp |-> d.zone[z].wp, zrwav |-> d.zone[z].zrwav]
  <2>1. /\ c \in RawDevices /\ SameRest(d, c) /\ c.zone = d.zone
        /\ c.res["OPEN"] = d.res["OPEN"] + 1
        /\ c.res["ACTIVE"] = d.res["ACTIVE"] /\ c.res["ZRWA"] = d.res["ZRWA"]
    BY <1>0, <1>r, AcquireFacts
  <2> HIDE DEF c
  <2>2. e \in RawDevices /\ SameRest(c, e) /\ e.res = c.res /\ e.zone = [d.zone EXCEPT ![z] = zn]
    BY <2>1, <1>r, ChangeStateFacts
  <2>3. ZoneOK(z, zn)
    BY <1>0, <1>2 DEF ZoneOK, Active, Opened
  <2>4. OpenZone(d, z, zrwa) = [dev |-> e, status |-> "SUCCESS"]
    BY <1>2 DEF OpenZone, Done, Opened, Active, c
  <2>5. zn.state = "OPENED_EXPL" /\ zn.wp = d.zone[z].wp /\ zn.zrwav = d.zone[z].zrwav
    OBVIOUS
  <2> HIDE DEF e, zn
  <2>6. DevOK(e)
    <3>1. /\ In(zn.state \in Opened) = 1 /\ In(zn.state \in Active) = 1 /\ In(s \in Opened) = 0 /\ In(s \in Active) = 1
          /\ In(zn.state \in Active /\ zn.zrwav) = In(s \in Active /\ d.zone[z].zrwav)
      BY <1>2, <2>5 DEF In, Opened, Active
    <3> QED BY <1>0, <1>i, <2>1, <2>2, <2>3, <3>1, ConstTypes, ZoneChange
  <2> QED BY <1>0, <1>2, <2>1, <2>2, <2>4, <2>5, <2>6 DEF Managed, SameRest
<1>3. CASE s \in Opened
  <2> DEFINE e  == ChangeState(d, z, "OPENED_EXPL")
             zn == [state |-> "OPENED_EXPL", wp |-> d.zone[z].wp, zrwav |-> d.zone[z].zrwav]
  <2>1. e \in RawDevices /\ SameRest(d, e) /\ e.res = d.res /\ e.zone = [d.zone EXCEPT ![z] = zn]
    BY <1>0, <1>r, ChangeStateFacts
  <2>2. ZoneOK(z, zn)
    BY <1>0, <1>3 DEF ZoneOK, Active, Opened
  <2>3. OpenZone(d, z, zrwa) = [dev |-> e, status |-> "SUCCESS"]
    BY <1>3 DEF OpenZone, Done, Opened, Active
  <2>4. zn.state = "OPENED_EXPL" /\ zn.wp = d.zone[z].wp /\ zn.zrwav = d.zone[z].zrwav
    OBVIOUS
  <2> HIDE DEF e, zn
  <2>5. DevOK(e)
    <3>1. /\ In(zn.state \in Opened) = 1 /\ In(zn.state \in Active) = 1 /\ In(s \in Opened) = 1 /\ In(s \in Active) = 1
          /\ In(zn.state \in Active /\ zn.zrwav) = In(s \in Active /\ d.zone[z].zrwav)
      BY <1>3, <2>4 DEF In, Opened, Active
    <3> QED BY <1>0, <1>i, <2>1, <2>2, <3>1, ConstTypes, ZoneChange
  <2> QED BY <1>0, <1>3, <2>1, <2>3, <2>4, <2>5 DEF Managed, SameRest, Opened
<1>4. CASE ~(s = "EMPTY" /\ ~Exhausted(d, "ACTIVE") /\ ~Exhausted(d, "OPEN") /\ ~(zrwa /\ Exhausted(d, "ZRWA")))
           /\ ~(s = "CLOSED" /\ ~Exhausted(d, "OPEN")) /\ s \notin Opened
  <2>1. \/ OpenZone(d, z, zrwa) = Fail(d, "NO_ACTIVE_ZONE")
        \/ OpenZone(d, z, zrwa) = Fail(d, "NO_OPEN_ZONE")
        \/ OpenZone(d, z, zrwa) = Fail(d, "ZRWA_RSRC_UNAVAIL")
        \/ OpenZone(d, z, zrwa) = Fail(d, "INVALID_TRANSITION")
    BY <1>4 DEF OpenZone, Active
  <2> QED BY <2>1, NothingDone
<1> QED BY <1>1, <1>2, <1>3, <1>4

LEMMA OfflineZoneKeeps ==
    ASSUME NEW d, DevOK(d), NEW z \in Zones
    PROVE  Managed(d, OfflineZone(d, z), z)
<1>1. d.zone[z].state \in Active \cup {"EMPTY", "FULL"}
  BY DevFacts
<1>2. OfflineZone(d, z) = Fail(d, "INVALID_TRANSITION")
  BY <1>1 DEF OfflineZone, Active, Opened
<1> QED BY <1>2, NothingDone

(* A reset of a sound zone succeeds, and the zone is as it was initially. *)
LEMMA ResetZoneKeeps ==
    ASSUME NEW d, DevOK(d), NEW z \in Zones
    PROVE  LET out == ResetZone(d, z)
           IN  /\ DevOK(out.dev) /\ out.status = "SUCCESS" /\ out.dev.wbuf = d.wbuf
               /\ \A y \in Zones \ {z} : out.dev.zone[y] = d.zone[y]
               /\ out.dev.zone[z].state = "EMPTY" /\ out.dev.zone[z].wp = Slba(z)
               /\ \A l \in Lbas : out.dev.data[l] = IF ZoneOf(l) = z THEN "ZERO" ELSE d.data[l]
<1> DEFINE c  == Deactivate(d, z)
           b  == ChangeState(c, z, "EMPTY")
           e  == Cleared(b, z)
           bn == [state |-> "EMPTY", wp |-> d.zone[z].wp, zrwav |-> d.zone[z].zrwav]
           zn == e.zone[z]
           da == [l \in Lbas |-> IF ZoneOf(l) = z THEN "ZERO" ELSE b.data[l]]
<1>0. /\ d \in RawDevices /\ d.zone \in [Zones -> ZoneRecords] /\ d.zone[z].wp \in Nat
      /\ ZoneOK(z, d.zone[z]) /\ d.zone[z].state \in Active \cup {"EMPTY", "FULL"}
      /\ d.res["OPEN"] \in 0..NZones /\ d.res["ACTIVE"] \in 0..NZones /\ d.res["ZRWA"] \in 0..NZones
  BY DevFacts
<1>1. /\ c \in RawDevices /\ SameRest(d, c) /\ c.zone = d.zone
      /\ c.res["OPEN"] = d.res["OPEN"] - In(d.zone[z].state \in Opened)
      /\ c.res["ACTIVE"] = d.res["ACTIVE"] - In(d.zone[z].state \in Active)
      /\ c.res["ZRWA"] = d.res["ZRWA"] - In(d.zone[z].state \in Active /\ d.zone[z].zrwav)
  BY <1>0, HeldIsCounted, DeactivateFacts
<1> HIDE DEF c
<1>2. b \in RawDevices /\ SameRest(c, b) /\ b.res = c.res /\ b.zone = [d.zone EXCEPT ![z] = bn]
  BY <1>1, ChangeStateFacts DEF ZoneStates
<1>3. ResetZone(d, z) = [dev |-> e, status |-> "SUCCESS"]
  BY <1>0 DEF ResetZone, Done, c
<1> HIDE DEF b
<1>4. b.zone[z] \in ZoneRecords /\ b.zone[z].state = "EMPTY"
  BY <1>0, <1>2 DEF RawDevices
<1>5. Slba(z) \in 0..(NZones * ZoneSize)
  <2>1. NZones * ZoneSize \in Nat
    BY ConstTypes
  <2> QED BY ZoneEnds, ConstTypes, <2>1
<1>6. da \in [Lbas -> {"ZERO", "OLDER", "LAST", "REFUSED"}]
  BY <1>2 DEF RawDevices
<1> HIDE DEF bn
<1>7. /\ e.wbuf = b.wbuf /\ e.res = b.res /\ e.data = da /\ e.zbuf \in [Zones -> Nat]
      /\ e.zone \in [Zones -> ZoneRecords] /\ e \in RawDevices
      /\ zn.state = "EMPTY" /\ zn.wp = Slba(z) /\ ~zn.zrwav
      /\ \A y \in Zones \ {z} : e.zone[y] = b.zone[y]
  <2> DEFINE b1 == [b EXCEPT !.data = da]
             n1 == [b.zone[z] EXCEPT !.wp = Slba(z)]
             b2 == [b1 EXCEPT !.zone[z].wp = Slba(z)]
             n2 == [n1 EXCEPT !.zrwav = FALSE]
             b3 == [b2 EXCEPT !.zone[z].zrwav = FALSE]
  <2>1. e = [b3 EXCEPT !.zbuf[z] = ZrwaBuffer]
    BY DEF Cleared
  <2>2. /\ b1 \in RawDevices /\ b1.wbuf = b.wbuf /\ b1.res = b.res /\ b1.data = da
        /\ b1.zone = b.zone
    BY <1>2, <1>6 DEF RawDevices
  <2>3. n1 \in ZoneRecords /\ n1.state = "EMPTY" /\ n1.wp = Slba(z)
    BY <1>4, <1>5 DEF ZoneRecords
  <2> HIDE DEF b1
  <2>4. b2 = [b1 EXCEPT !.zone = [b.zone EXCEPT ![z] = n1]]
    BY <2>2 DEF RawDevices
  <2> HIDE DEF n1, b2
  <2>5. /\ b2 \in RawDevices /\ b2.wbuf = b.wbuf /\ b2.res = b.res /\ b2.data = da
        /\ b2.zone = [b.zone EXCEPT ![z] = n1]
    <3>1. [b.zone EXCEPT ![z] = n1] \in [Zones -> ZoneRecords]
      BY <1>2, <2>3 DEF RawDevices
    <3> QED BY <2>2, <2>4, <3>1 DEF RawDevices
  <2>6. n2 \in ZoneRecords /\ n2.state = "EMPTY" /\ n2.wp = Slba(z) /\ ~n2.zrwav
    BY <2>3 DEF ZoneRecords
  <2>7. b3 = [b2 EXCEPT !.zone = [b2.zone EXCEPT ![z] = n2]]
    <3>1. b2.zone[z] = n1
      BY <1>2, <2>5 DEF RawDevices
    <3> QED BY <2>5, <3>1 DEF RawDevices
  <2> HIDE DEF n2, b3, da
  <2>8. /\ b3 \in RawDevices /\ b3.wbuf = b.wbuf /\ b3.res = b.res /\ b3.data = da
        /\ b3.zone = [b2.zone EXCEPT ![z] = n2]
    <3>1. [b2.zone EXCEPT ![z] = n2] \in [Zones -> ZoneRecords]
      BY <2>5, <2>6 DEF RawDevices
    <3> QED BY <2>5, <2>7, <3>1 DEF RawDevices
  <2>9. b3.zone[z] = n2 /\ \A y \in Zones \ {z} : b3.zone[y] = b.zone[y]
    BY <1>2, <2>5, <2>8 DEF RawDevices
  <2> HIDE DEF e
  <2>10. /\ e \in RawDevices /\ e.wbuf = b.wbuf /\ e.res = b.res /\ e.data = da
         /\ e.zone = b3.zone
    BY <2>1, <2>8, ConstTypes DEF RawDevices
  <2> QED BY <2>6, <2>9, <2>10 DEF RawDevices
<1> HIDE DEF da, e
<1>8. e.zone = [d.zone EXCEPT ![z] = zn]
  <2>1. \A y \in Zones \ {z} : e.zone[y] = d.zone[y]
    BY <1>0, <1>2, <1>7
  <2> QED BY <1>0, <1>7, <2>1
<1> HIDE DEF zn
<1>9. ZoneOK(z, zn)
  <2>1. Slba(z) \in Nat /\ Slba(z) - Slba(z) = 0 * WriteUnit /\ Slba(z) - Slba(z) \in Nat
    BY ZoneEnds, ConstTypes
  <2>2. (Slba(z) - Slba(z)) % WriteUnit = 0
    BY <2>1, ConstTypes, MultipleOf
  <2> QED BY <1>7, <2>1, <2>2, ConstTypes DEF ZoneOK
<1>10. zn.state = "EMPTY" /\ zn.wp = Slba(z)
  BY <1>7
<1>11. DevOK(e)
  <2>1. In(zn.state \in Opened) = 0 /\ In(zn.state \in Active) = 0 /\ In(zn.state \in Active /\ zn.zrwav) = 0
    BY <1>10 DEF In, Opened, Active
  <2>2. \A p : In(p) \in {0, 1}
    BY DEF In
  <2> QED BY <1>0, <1>1, <1>2, <1>7, <1>8, <1>9, <2>1, <2>2, ConstTypes, ZoneChange
<1>12. \A l \in Lbas : e.data[l] = IF ZoneOf(l) = z THEN "ZERO" ELSE d.data[l]
  BY <1>1, <1>2, <1>7 DEF SameRest, da
<1> QED BY <1>0, <1>1, <1>2, <1>3, <1>7, <1>8, <1>10, <1>11, <1>12 DEF SameRest, zn

(* The explicit commit moves the pointer in flush groups, up to the end. *)
LEMMA FlushZrwaKeeps ==
    ASSUME NEW d, DevOK(d), NEW lba \in Lbas
    PROVE  Managed(d, FlushZrwa(d, lba), ZoneOf(lba))
<1> DEFINE z    == ZoneOf(lba)
           zn   == d.zone[z]
           last == Min({zn.wp + LbasZrwa - 1, Elba(z)})
           e    == [d EXCEPT !.zone[z].wp = lba + 1]
           en   == [zn EXCEPT !.wp = lba + 1]
<1>z. z \in Zones /\ lba \in Nat
  BY ZoneInRange
<1> HIDE DEF z
<1>0. /\ d \in RawDevices /\ d.zone \in [Zones -> ZoneRecords] /\ zn \in ZoneRecords
      /\ zn.wp \in Nat /\ zn.zrwav \in BOOLEAN
      /\ ZoneOK(z, zn) /\ zn.state \in Active \cup {"EMPTY", "FULL"}
      /\ d.res["OPEN"] \in 0..NZones /\ d.res["ACTIVE"] \in 0..NZones /\ d.res["ZRWA"] \in 0..NZones
  BY <1>z, DevFacts
<1>1. /\ Slba(z) \in Nat /\ Elba(z) = Slba(z) + ZoneSize - 1 /\ Slba(z) + ZoneSize <= NZones * ZoneSize
      /\ NZones * ZoneSize \in Nat
  BY <1>z, ZoneEnds, ConstTypes
<1>2. last <= Elba(z)
  <2> DEFINE S == {zn.wp + LbasZrwa - 1, Elba(z)}
  <2>1. zn.wp + LbasZrwa - 1 \in Int /\ Elba(z) \in Int
    BY <1>0, <1>1, ConstTypes
  <2>2. \E x \in S : \A y \in S : x <= y
    BY <2>1
  <2>3. Min(S) \in S /\ \A y \in S : Min(S) <= y
    <3> HIDE DEF S
    <3> QED BY <2>2, Zenon DEF Min
  <2> HIDE DEF S
  <2>4. Elba(z) \in S
    BY DEF S
  <2> QED BY <2>3, <2>4 DEF S
<1> HIDE DEF last
<1>3. CASE /\ zn.zrwav /\ lba >= zn.wp /\ lba <= last /\ (lba - zn.wp + 1) % LbasZrwafg = 0
           /\ zn.state \in Active
  <2>1. lba + 1 \in Slba(z)..(Slba(z) + ZoneSize) /\ lba + 1 \in 0..(NZones * ZoneSize) /\ lba + 1 >= zn.wp
    <3>1. lba <= Elba(z)
      <4>1. last \in Int
        <5>1. zn.wp + LbasZrwa - 1 \in Int /\ Elba(z) \in Int
          BY <1>0, <1>1, ConstTypes
        <5>2. \E x \in {zn.wp + LbasZrwa - 1, Elba(z)} : \A y \in {zn.wp + LbasZrwa - 1, Elba(z)} : x <= y
          BY <5>1
        <5>3. last \in {zn.wp + LbasZrwa - 1, Elba(z)}
          BY <5>2, Zenon DEF last, Min
        <5> QED BY <5>1, <5>3
      <4> QED BY <1>z, <1>1, <1>2, <1>3, <4>1, ConstTypes
    <3> QED BY <1>z, <1>0, <1>1, <1>3, <3>1, ConstTypes DEF ZoneOK
  <2>2. (lba + 1 - Slba(z)) % LbasZrwafg = 0
    <3> DEFINE a == lba - zn.wp + 1
               b == zn.wp - Slba(z)
    <3>1. a \in Nat /\ b \in Nat /\ a % LbasZrwafg = 0 /\ b % LbasZrwafg = 0 /\ a + b = lba + 1 - Slba(z)
      BY <1>z, <1>0, <1>1, <1>3 DEF ZoneOK
    <3> HIDE DEF a, b
    <3>2. (a + b) % LbasZrwafg = 0
      BY <3>1, ConstTypes, MultipleSum
    <3> QED BY <3>1, <3>2
  <2>3. en \in ZoneRecords /\ en.state = zn.state /\ en.wp = lba + 1 /\ en.zrwav = zn.zrwav
    BY <1>0, <2>1 DEF ZoneRecords
  <2>4. e \in RawDevices /\ e.res = d.res /\ SameRest(d, e) /\ e.zone = [d.zone EXCEPT ![z] = en]
    <3>1. e = [d EXCEPT !.zone = [d.zone EXCEPT ![z] = en]]
      BY <1>0 DEF RawDevices
    <3> HIDE DEF en, e
    <3>2. [d.zone EXCEPT ![z] = en] \in [Zones -> ZoneRecords]
      BY <1>0, <2>3
    <3> QED BY <1>0, <2>3, <3>1, <3>2 DEF RawDevices, SameRest
  <2> HIDE DEF e
  <2>5. e.zone[z] = en /\ en.state = zn.state /\ en.wp = lba + 1 /\ en.zrwav = zn.zrwav
    <3> HIDE DEF en
    <3> QED BY <1>z, <1>0, <2>3, <2>4
  <2>6. \A p : In(p) \in {0, 1}
    BY DEF In
  <2>7. CASE lba + 1 = Slba(z) + ZoneSize
    <3> DEFINE c  == Deactivate(e, z)
               f  == ChangeState(c, z, "FULL")
               fn == [state |-> "FULL", wp |-> lba + 1, zrwav |-> zn.zrwav]
    <3>1. /\ c \in RawDevices /\ SameRest(e, c) /\ c.zone = e.zone
          /\ c.res["OPEN"] = d.res["OPEN"] - In(zn.state \in Opened)
          /\ c.res["ACTIVE"] = d.res["ACTIVE"] - In(zn.state \in Active)
          /\ c.res["ZRWA"] = d.res["ZRWA"] - In(zn.state \in Active /\ zn.zrwav)
      <4>1. e.zone[z].state = zn.state /\ e.zone[z].zrwav = zn.zrwav
        <5> HIDE DEF en
        <5> QED BY <2>5
      <4>2. /\ c \in RawDevices /\ SameRest(e, c) /\ c.zone = e.zone
            /\ c.res["OPEN"] = e.res["OPEN"] - In(e.zone[z].state \in Opened)
            /\ c.res["ACTIVE"] = e.res["ACTIVE"] - In(e.zone[z].state \in Active)
            /\ c.res["ZRWA"] = e.res["ZRWA"] - In(e.zone[z].state \in Active /\ e.zone[z].zrwav)
        <5>1. Held(d, z) /\ zn.zrwav
          BY <1>z, <1>3, HeldIsCounted
        <5> HIDE DEF en
        <5>2. Held(e, z)
          BY <2>4, <4>1, <5>1 DEF Held
        <5> QED BY <1>z, <2>4, <5>2, DeactivateFacts
      <4> HIDE DEF en, zn, c
      <4> QED BY <2>4, <4>1, <4>2
    <3> HIDE DEF c
    <3>2. /\ f \in RawDevices /\ SameRest(c, f) /\ f.res = c.res
          /\ f.zone = [c.zone EXCEPT ![z] = [state |-> "FULL", wp |-> c.zone[z].wp, zrwav |-> c.zone[z].zrwav]]
      BY <1>z, <3>1, ChangeStateFacts DEF ZoneStates
    <3>3. FlushZrwa(d, lba) = [dev |-> f, status |-> "SUCCESS"]
      BY <1>3, <2>7 DEF FlushZrwa, Done, z, c, e, last
    <3>4. [state |-> "FULL", wp |-> c.zone[z].wp, zrwav |-> c.zone[z].zrwav] = fn
      BY <2>5, <3>1
    <3>6. fn.state = "FULL" /\ fn.wp = lba + 1 /\ fn.zrwav = zn.zrwav
      OBVIOUS
    <3> HIDE DEF f, fn, en
    <3>5. ZoneOK(z, fn)
      <4>1. fn.zrwav
        BY <1>3, <3>6
      <4> QED BY <1>z, <1>0, <1>1, <2>1, <2>2, <3>6, <4>1 DEF ZoneOK
    <3>7. f.zone = [d.zone EXCEPT ![z] = fn]
      BY <1>0, <2>4, <3>1, <3>2, <3>4
    <3>8. DevOK(f)
      <4>1. In(fn.state \in Opened) = 0 /\ In(fn.state \in Active) = 0 /\ In(fn.state \in Active /\ fn.zrwav) = 0
        BY <3>6 DEF In, Opened, Active
      <4> QED BY <1>z, <1>0, <2>6, <3>1, <3>2, <3>5, <3>7, <4>1, ConstTypes, ZoneChange
    <3> QED BY <1>z, <1>0, <2>1, <2>4, <3>1, <3>2, <3>3, <3>6, <3>7, <3>8 DEF Managed, SameRest, z
  <2>8. CASE lba + 1 # Slba(z) + ZoneSize
    <3>1. FlushZrwa(d, lba) = [dev |-> e, status |-> "SUCCESS"]
      BY <1>3, <2>8 DEF FlushZrwa, Done, z, e, last
    <3>2. ZoneOK(z, en)
      <4> HIDE DEF en
      <4>1. en.zrwav /\ en.state \in Active
        BY <1>3, <2>5
      <4> QED BY <1>z, <1>0, <1>1, <2>1, <2>2, <2>5, <2>8, <4>1 DEF ZoneOK, Active, Opened
    <3> HIDE DEF en
    <3>3. DevOK(e)
      BY <1>z, <1>0, <2>4, <2>5, <2>6, <3>2, ConstTypes, ZoneChange
    <3> QED BY <1>z, <1>0, <1>3, <2>1, <2>4, <2>5, <3>1, <3>3 DEF Managed, SameRest, z, Active, Opened
  <2> QED BY <2>7, <2>8
<1>4. CASE ~(/\ zn.zrwav /\ lba >= zn.wp /\ lba <= last /\ (lba - zn.wp + 1) % LbasZrwafg = 0
             /\ zn.state \in Active)
  <2>1. \/ FlushZrwa(d, lba) = Fail(d, "INVALID_ZONE_OPERATION")
        \/ FlushZrwa(d, lba) = Fail(d, "INVALID_FIELD")
    BY <1>4 DEF FlushZrwa, z, last
  <2> QED BY <1>z, <2>1, NothingDone DEF z
<1> QED BY <1>3, <1>4

(* The new descriptor of a zone that a management command has touched. *)
ZoneEffect(d, e, z, a) ==
    IF a = "RESET" THEN e.zone[z].state = "EMPTY" /\ e.zone[z].wp = Slba(z)
    ELSE /\ e.zone[z].wp >= d.zone[z].wp
         /\ d.zone[z].state = "FULL" => e.zone[z].state = "FULL"

(* The device after a management command on the zones below n only. *)
EffectUpTo(d, e, n, a) ==
    /\ DevOK(e) /\ e.wbuf = d.wbuf
    /\ \A y \in Zones : IF y < n THEN ZoneEffect(d, e, y, a) ELSE e.zone[y] = d.zone[y]
    /\ \A l \in Lbas : e.data[l] = IF a = "RESET" /\ ZoneOf(l) < n THEN "ZERO" ELSE d.data[l]

LEMMA ManageKeeps ==
    ASSUME NEW d, DevOK(d), NEW lba \in Lbas, NEW a \in ManageActions
    PROVE  LET out == Manage(d, lba, a)
               z   == ZoneOf(lba)
           IN  /\ DevOK(out.dev) /\ out.dev.wbuf = d.wbuf
               /\ \A y \in Zones \ {z} : out.dev.zone[y] = d.zone[y]
               /\ ZoneEffect(d, out.dev, z, a)
               /\ \A l \in Lbas : out.dev.data[l] = IF a = "RESET" /\ ZoneOf(l) = z THEN "ZERO" ELSE d.data[l]
               /\ out.status # "SUCCESS" => a # "RESET" /\ out.dev.zone = d.zone /\ out.dev.res = d.res
<1> DEFINE z == ZoneOf(lba)
<1>0. z \in Zones
  BY ZoneInRange
<1>1. CASE a = "RESET"
  <2>1. Manage(d, lba, a) = ResetZone(d, z)
    BY <1>1 DEF Manage
  <2> HIDE DEF z
  <2> QED BY <1>0, <1>1, <2>1, ResetZoneKeeps DEF ZoneEffect, z
<1>2. CASE a # "RESET"
  <2>1. Managed(d, Manage(d, lba, a), z)
    <3>1. CASE a = "CLOSE"
      BY <1>0, <3>1, CloseZoneKeeps DEF Manage
    <3>2. CASE a = "FINISH"
      BY <1>0, <3>2, FinishZoneKeeps DEF Manage
    <3>3. CASE a = "OPEN"
      BY <1>0, <3>3, OpenZoneKeeps DEF Manage
    <3>4. CASE a = "OPEN_ZRWA"
      BY <1>0, <3>4, OpenZoneKeeps DEF Manage
    <3>5. CASE a = "OFFLINE"
      BY <1>0, <3>5, OfflineZoneKeeps DEF Manage
    <3>6. CASE a = "FLUSH"
      BY <3>6, FlushZrwaKeeps DEF Manage
    <3> QED BY <1>2, <3>1, <3>2, <3>3, <3>4, <3>5, <3>6 DEF ManageActions
  <2> HIDE DEF z
  <2> QED BY <1>2, <2>1 DEF Managed, ZoneEffect, z
<1> QED BY <1>1, <1>2

(* Zone after zone, the commands with select_all reach every zone. *)
LEMMA ManageAllKeeps ==
    ASSUME DevOK(dev), NEW a \in ManageActions
    PROVE  EffectUpTo(dev, ManageUpTo(a), NZones, a)
<1> DEFINE S  == {d \in Devices : DevOK(d)}
           Do(d, n) == Manage(d, Slba(n - 1), a).dev
           st == [n \in 1..NZones |-> [d \in S |-> Do(d, n)]]
           f  == CHOOSE f : f = [n \in 0..NZones |-> IF n = 0 THEN dev ELSE Do(f[n - 1], n)]
<1>0. NZones \in Nat /\ dev \in S /\ \A d \in S : DevOK(d)
  BY ConstTypes DEF DevOK
<1>1. ASSUME NEW n \in 1..NZones
      PROVE  n - 1 \in Zones /\ n - 1 \in Nat /\ Slba(n - 1) \in Lbas /\ ZoneOf(Slba(n - 1)) = n - 1
  <2>1. n - 1 \in Zones /\ n - 1 \in Nat
    BY ConstTypes DEF Zones
  <2> QED BY <2>1, ZoneEnds
<1>2. ASSUME NEW n \in 1..NZones, NEW d \in S PROVE Do(d, n) \in S
  <2>1. DevOK(Do(d, n))
    BY <1>0, <1>1, ManageKeeps
  <2> QED BY <2>1 DEF DevOK
<1>3. st \in [1..NZones -> [S -> S]]
  <2> HIDE DEF S, Do
  <2> QED BY <1>2
<1> HIDE DEF S, Do
<1>4. PICK g \in [0..NZones -> S] : g[0] = dev /\ \A n \in 1..NZones : g[n] = st[n][g[n - 1]]
  <2> HIDE DEF st
  <2>1. NZones \in Nat /\ dev \in S
    BY <1>0
  <2> QED BY <2>1, <1>3, RecExists
<1>5. g = [n \in 0..NZones |-> IF n = 0 THEN dev ELSE Do(g[n - 1], n)]
  <2>1. \A n \in 0..NZones : g[n] = IF n = 0 THEN dev ELSE Do(g[n - 1], n)
    <3> TAKE n \in 0..NZones
    <3>1. CASE n = 0
      BY <3>1, <1>4
    <3>2. CASE n # 0
      <4>1. n \in 1..NZones /\ n - 1 \in 0..NZones
        BY <3>2, <1>0
      <4>2. g[n - 1] \in S
        BY <4>1, <1>4
      <4>4. st[n][g[n - 1]] = Do(g[n - 1], n)
        BY <4>1, <4>2
      <4>5. g[n] = st[n][g[n - 1]]
        BY <1>4, <4>1
      <4> QED BY <4>4, <4>5, <3>2
    <3> QED BY <3>1, <3>2
  <2> QED BY <2>1, <1>4
<1>6. f = [n \in 0..NZones |-> IF n = 0 THEN dev ELSE Do(f[n - 1], n)]
  BY <1>5, Zenon
<1>7. ManageUpTo(a) = f[NZones]
  BY DEF ManageUpTo, Do
<1> HIDE DEF f
<1>8. f[0] = dev /\ \A n \in 1..NZones : f[n] = Do(f[n - 1], n)
  BY <1>6, <1>0
<1> DEFINE T == {n \in Nat : n <= NZones => EffectUpTo(dev, f[n], n, a)}
<1>9. 0 \in T
  <2>1. ASSUME NEW y \in Zones PROVE ~(y < 0)
    BY DEF Zones
  <2>2. ASSUME NEW l \in Lbas PROVE ~(ZoneOf(l) < 0)
    BY <2>1, ZoneInRange
  <2>3. EffectUpTo(dev, dev, 0, a)
    BY <2>1, <2>2 DEF EffectUpTo
  <2> QED BY <1>8, <2>3
<1>10. ASSUME NEW n \in T PROVE n + 1 \in T
  <2> SUFFICES ASSUME n + 1 <= NZones PROVE EffectUpTo(dev, f[n + 1], n + 1, a)
    BY <1>10
  <2> DEFINE d == f[n]
             e == f[n + 1]
  <2>1. n \in Nat /\ n + 1 \in 1..NZones /\ n \in Zones /\ n + 1 - 1 = n
    BY <1>0, <1>10 DEF Zones
  <2>2. EffectUpTo(dev, d, n, a)
    BY <1>0, <1>10, <2>1
  <2>3. Slba(n) \in Lbas /\ ZoneOf(Slba(n)) = n
    BY <1>1, <2>1
  <2>4. e = Manage(d, Slba(n), a).dev
    BY <1>8, <2>1 DEF Do
  <2> HIDE DEF d, e
  <2>5. DevOK(d)
    BY <2>2 DEF EffectUpTo
  <2>6. /\ DevOK(e) /\ e.wbuf = d.wbuf
        /\ \A y \in Zones \ {n} : e.zone[y] = d.zone[y]
        /\ ZoneEffect(d, e, n, a)
        /\ \A l \in Lbas : e.data[l] = IF a = "RESET" /\ ZoneOf(l) = n THEN "ZERO" ELSE d.data[l]
    BY <2>3, <2>4, <2>5, ManageKeeps
  <2>7. ASSUME NEW y \in Zones
        PROVE  IF y < n + 1 THEN ZoneEffect(dev, e, y, a) ELSE e.zone[y] = dev.zone[y]
    <3>0. y \in Nat
      BY DEF Zones
    <3>1. CASE y = n
      <4>1. d.zone[n] = dev.zone[n]
        BY <2>1, <2>2 DEF EffectUpTo
      <4> QED BY <2>1, <2>6, <3>1, <4>1 DEF ZoneEffect
    <3>2. CASE y # n
      <4>1. e.zone[y] = d.zone[y]
        BY <2>6, <3>2
      <4>2. IF y < n THEN ZoneEffect(dev, d, y, a) ELSE d.zone[y] = dev.zone[y]
        BY <2>2 DEF EffectUpTo
      <4>3. y < n + 1 <=> y < n
        BY <2>1, <3>0, <3>2
      <4> QED BY <4>1, <4>2, <4>3 DEF ZoneEffect
    <3> QED BY <3>1, <3>2
  <2>8. ASSUME NEW l \in Lbas
        PROVE  e.data[l] = IF a = "RESET" /\ ZoneOf(l) < n + 1 THEN "ZERO" ELSE dev.data[l]
    <3>1. ZoneOf(l) \in Nat
      BY ZoneInRange DEF Zones
    <3>2. ZoneOf(l) < n + 1 <=> ZoneOf(l) < n \/ ZoneOf(l) = n
      BY <2>1, <3>1
    <3>3. e.data[l] = IF a = "RESET" /\ ZoneOf(l) = n THEN "ZERO" ELSE d.data[l]
      BY <2>6
    <3>4. d.data[l] = IF a = "RESET" /\ ZoneOf(l) < n THEN "ZERO" ELSE dev.data[l]
      BY <2>2 DEF EffectUpTo
    <3> QED BY <3>2, <3>3, <3>4
  <2>9. EffectUpTo(dev, e, n + 1, a)
    BY <2>2, <2>6, <2>7, <2>8 DEF EffectUpTo
  <2> QED BY <2>9 DEF e
<1>11. NZones \in T
  <2> HIDE DEF T
  <2>1. T \in SUBSET Nat
    BY DEF T
  <2> QED BY <1>0, <1>9, <1>10, <2>1, SetInduction
<1> QED BY <1>0, <1>7, <1>11

-----------------------------------------------------------------------------
(* Writes. *)

(* Buffers and data do not count for the soundness of zones and counters. *)
LEMMA SameZones ==
    ASSUME NEW d, DevOK(d), NEW e \in Devices, e.zone = d.zone, e.res = d.res
    PROVE  DevOK(e)
<1>1. Counted(e, Opened) = Counted(d, Opened) /\ Counted(e, Active) = Counted(d, Active) /\ Areas(e) = Areas(d)
  BY DEF Counted, Areas
<1> QED BY <1>1 DEF DevOK, ResOK

(* A write opens an empty zone, ... *)
LEMMA OpenEmpty ==
    ASSUME NEW d, DevOK(d), NEW z \in Zones, d.zone[z].state = "EMPTY",
           ~Exhausted(d, "ACTIVE"), ~Exhausted(d, "OPEN")
    PROVE  LET e == ChangeState(Acquire(Acquire(d, "ACTIVE"), "OPEN"), z, "OPENED_IMPL")
           IN  /\ DevOK(e) /\ SameRest(d, e)
               /\ \A y \in Zones \ {z} : e.zone[y] = d.zone[y]
               /\ e.zone[z].state = "OPENED_IMPL" /\ e.zone[z].wp = d.zone[z].wp
               /\ e.zone[z].zrwav = d.zone[z].zrwav
<1> DEFINE b  == Acquire(d, "ACTIVE")
           c  == Acquire(b, "OPEN")
           e  == ChangeState(c, z, "OPENED_IMPL")
           zn == [state |-> "OPENED_IMPL", wp |-> d.zone[z].wp, zrwav |-> d.zone[z].zrwav]
<1>0. /\ d \in RawDevices /\ d.zone \in [Zones -> ZoneRecords] /\ d.zone[z].wp \in Nat
      /\ ZoneOK(z, d.zone[z])
      /\ d.res["OPEN"] \in 0..NZones /\ d.res["ACTIVE"] \in 0..NZones /\ d.res["ZRWA"] \in 0..NZones
  BY DevFacts
<1>r. "OPEN" \in Resources /\ "ACTIVE" \in Resources /\ "ZRWA" \in Resources /\ "OPENED_IMPL" \in ZoneStates
  BY DEF Resources, ZoneStates, Active, Opened
<1>1. /\ b \in RawDevices /\ SameRest(d, b) /\ b.zone = d.zone
      /\ b.res["ACTIVE"] = d.res["ACTIVE"] + 1
      /\ b.res["OPEN"] = d.res["OPEN"] /\ b.res["ZRWA"] = d.res["ZRWA"]
  BY <1>0, <1>r, AcquireFacts
<1> HIDE DEF b
<1>2. /\ c \in RawDevices /\ SameRest(b, c) /\ c.zone = d.zone
      /\ c.res["OPEN"] = d.res["OPEN"] + 1
      /\ c.res["ACTIVE"] = d.res["ACTIVE"] + 1 /\ c.res["ZRWA"] = d.res["ZRWA"]
  BY <1>1, <1>r, AcquireFacts
<1> HIDE DEF c
<1>3. e \in RawDevices /\ SameRest(c, e) /\ e.res = c.res /\ e.zone = [d.zone EXCEPT ![z] = zn]
  BY <1>2, <1>r, ChangeStateFacts
<1>4. zn.state = "OPENED_IMPL" /\ zn.wp = d.zone[z].wp /\ zn.zrwav = d.zone[z].zrwav
  OBVIOUS
<1>5. e.zone[z] = zn /\ \A y \in Zones \ {z} : e.zone[y] = d.zone[y]
  <2> HIDE DEF e, zn
  <2> QED BY <1>0, <1>3
<1>6. ~d.zone[z].zrwav /\ d.zone[z].wp = Slba(z) /\ Slba(z) \in Nat
  BY <1>0, ZoneEnds DEF ZoneOK
<1> HIDE DEF e, zn
<1>7. ZoneOK(z, zn)
  <2>1. ~zn.zrwav
    BY <1>4, <1>6
  <2> QED BY <1>0, <1>4, <1>6, <2>1, ConstTypes DEF ZoneOK, Active, Opened
<1>8. DevOK(e)
  <2>1. /\ In(zn.state \in Opened) = 1 /\ In(zn.state \in Active) = 1
        /\ In(zn.state \in Active /\ zn.zrwav) = 0
        /\ In(d.zone[z].state \in Opened) = 0 /\ In(d.zone[z].state \in Active) = 0
        /\ In(d.zone[z].state \in Active /\ d.zone[z].zrwav) = 0
    BY <1>4, <1>6 DEF In, Opened, Active
  <2> QED BY <1>0, <1>2, <1>3, <1>7, <2>1, ConstTypes, ZoneChange
<1> QED BY <1>1, <1>2, <1>3, <1>4, <1>5, <1>8 DEF SameRest, b, c, e

(* ... or a closed one. *)
LEMMA OpenClosed ==
    ASSUME NEW d, DevOK(d), NEW z \in Zones, d.zone[z].state = "CLOSED", ~Exhausted(d, "OPEN")
    PROVE  LET e == ChangeState(Acquire(d, "OPEN"), z, "OPENED_IMPL")
           IN  /\ DevOK(e) /\ SameRest(d, e)
               /\ \A y \in Zones \ {z} : e.zone[y] = d.zone[y]
               /\ e.zone[z].state = "OPENED_IMPL" /\ e.zone[z].wp = d.zone[z].wp
               /\ e.zone[z].zrwav = d.zone[z].zrwav
<1> DEFINE c  == Acquire(d, "OPEN")
           e  == ChangeState(c, z, "OPENED_IMPL")
           zn == [state |-> "OPENED_IMPL", wp |-> d.zone[z].wp, zrwav |-> d.zone[z].zrwav]
<1>0. /\ d \in RawDevices /\ d.zone \in [Zones -> ZoneRecords] /\ d.zone[z].wp \in Nat
      /\ ZoneOK(z, d.zone[z])
      /\ d.res["OPEN"] \in 0..NZones /\ d.res["ACTIVE"] \in 0..NZones /\ d.res["ZRWA"] \in 0..NZones
  BY DevFacts
<1>r. "OPEN" \in Resources /\ "ACTIVE" \in Resources /\ "ZRWA" \in Resources /\ "OPENED_IMPL" \in ZoneStates
  BY DEF Resources, ZoneStates, Active, Opened
<1>1. /\ c \in RawDevices /\ SameRest(d, c) /\ c.zone = d.zone
      /\ c.res["OPEN"] = d.res["OPEN"] + 1
      /\ c.res["ACTIVE"] = d.res["ACTIVE"] /\ c.res["ZRWA"] = d.res["ZRWA"]
  BY <1>0, <1>r, AcquireFacts
<1> HIDE DEF c
<1>3. e \in RawDevices /\ SameRest(c, e) /\ e.res = c.res /\ e.zone = [d.zone EXCEPT ![z] = zn]
  BY <1>1, <1>r, ChangeStateFacts
<1>4. zn.state = "OPENED_IMPL" /\ zn.wp = d.zone[z].wp /\ zn.zrwav = d.zone[z].zrwav
  OBVIOUS
<1>6. ZoneOK(z, zn)
  BY <1>0 DEF ZoneOK, Active, Opened
<1> HIDE DEF e, zn
<1>5. e.zone[z] = zn /\ \A y \in Zones \ {z} : e.zone[y] = d.zone[y]
  BY <1>0, <1>3
<1>8. DevOK(e)
  <2>1. /\ In(zn.state \in Opened) = 1 /\ In(zn.state \in Active) = 1
        /\ In(zn.state \in Active /\ zn.zrwav) = In(d.zone[z].state \in Active /\ d.zone[z].zrwav)
        /\ In(d.zone[z].state \in Opened) = 0 /\ In(d.zone[z].state \in Active) = 1
    BY <1>4 DEF In, Opened, Active
  <2>2. \A p : In(p) \in {0, 1}
    BY DEF In
  <2> QED BY <1>0, <1>1, <1>3, <1>6, <2>1, <2>2, ConstTypes, ZoneChange
<1> QED BY <1>1, <1>3, <1>4, <1>5, <1>8 DEF SameRest, c, e

(* The write pointer of an open zone advances; at the end the zone is full *)
(* and gives its open and active resources back, its random write area     *)
(* stays counted.                                                          *)
LEMMA IncreaseWpKeeps ==
    ASSUME NEW d, DevOK(d), NEW z \in Zones, d.zone[z].state \in Opened, NEW n \in Nat,
           d.zone[z].wp + n <= Slba(z) + ZoneSize,
           ~d.zone[z].zrwav => n % WriteUnit = 0,
           d.zone[z].zrwav => (d.zone[z].wp + n - Slba(z)) % LbasZrwafg = 0
    PROVE  LET e == IncreaseWp(d, z, n)
           IN  /\ DevOK(e) /\ SameRest(d, e)
               /\ \A y \in Zones \ {z} : e.zone[y] = d.zone[y]
               /\ e.zone[z].wp = d.zone[z].wp + n
<1> DEFINE zn == d.zone[z]
           m  == zn.wp + n
           en == [zn EXCEPT !.wp = m]
           e  == [d EXCEPT !.zone[z].wp = @ + n]
<1>0. /\ d \in RawDevices /\ d.zone \in [Zones -> ZoneRecords] /\ zn \in ZoneRecords
      /\ zn.wp \in Nat /\ zn.zrwav \in BOOLEAN /\ ZoneOK(z, zn)
      /\ d.res["OPEN"] \in 0..NZones /\ d.res["ACTIVE"] \in 0..NZones /\ d.res["ZRWA"] \in 0..NZones
  BY DevFacts
<1>1. Slba(z) \in Nat /\ Slba(z) + ZoneSize <= NZones * ZoneSize /\ NZones * ZoneSize \in Nat
  BY ZoneEnds, ConstTypes
<1>2. m \in Slba(z)..(Slba(z) + ZoneSize) /\ m \in 0..(NZones * ZoneSize)
  BY <1>0, <1>1, ConstTypes DEF ZoneOK
<1>3. en \in ZoneRecords /\ en.state = zn.state /\ en.wp = m /\ en.zrwav = zn.zrwav
  <2> HIDE DEF m
  <2> QED BY <1>0, <1>2 DEF ZoneRecords
<1>4. e \in RawDevices /\ e.res = d.res /\ SameRest(d, e) /\ e.zone = [d.zone EXCEPT ![z] = en]
  <2>1. e = [d EXCEPT !.zone = [d.zone EXCEPT ![z] = en]]
    BY <1>0 DEF RawDevices
  <2> HIDE DEF en, e
  <2>2. [d.zone EXCEPT ![z] = en] \in [Zones -> ZoneRecords]
    BY <1>0, <1>3
  <2> QED BY <1>0, <2>1, <2>2 DEF RawDevices, SameRest
<1>5. /\ zn.zrwav => (m - Slba(z)) % LbasZrwafg = 0
      /\ ~zn.zrwav => (m - Slba(z)) % WriteUnit = 0
  <2>1. ASSUME zn.zrwav PROVE (m - Slba(z)) % LbasZrwafg = 0
    <3>1. m - Slba(z) = zn.wp + n - Slba(z)
      BY <1>0, <1>1
    <3> QED BY <2>1, <3>1
  <2>2. ASSUME ~zn.zrwav PROVE (m - Slba(z)) % WriteUnit = 0
    <3> DEFINE a == zn.wp - Slba(z)
    <3>1. a \in Nat /\ a % WriteUnit = 0 /\ n % WriteUnit = 0 /\ m - Slba(z) = a + n
      BY <1>0, <1>1, <2>2 DEF ZoneOK
    <3> HIDE DEF a, m
    <3>2. (a + n) % WriteUnit = 0
      BY <3>1, ConstTypes, MultipleSum
    <3> QED BY <3>1, <3>2
  <2> QED BY <2>1, <2>2
<1> HIDE DEF m
<1>m. m = zn.wp + n
  BY DEF m
<1>6. IncreaseWp(d, z, n) = IF e.zone[z].wp = Slba(z) + ZoneSize
                            THEN ChangeState(Release(Release(e, "OPEN"), "ACTIVE"), z, "FULL") ELSE e
  BY DEF IncreaseWp
<1> HIDE DEF e, en
<1>7. e.zone[z] = en /\ \A y \in Zones \ {z} : e.zone[y] = d.zone[y]
  BY <1>0, <1>4
<1>p. \A p : In(p) \in {0, 1}
  BY DEF In
<1>o. In(zn.state \in Opened) = 1 /\ In(zn.state \in Active) = 1
  BY DEF In, Active
<1>8. CASE m = Slba(z) + ZoneSize
  <2> DEFINE b  == Release(e, "OPEN")
             c  == Release(b, "ACTIVE")
             f  == ChangeState(c, z, "FULL")
             fn == [state |-> "FULL", wp |-> m, zrwav |-> en.zrwav]
  <2>1. IncreaseWp(d, z, n) = f
    BY <1>3, <1>6, <1>7, <1>8
  <2>2. d.res["OPEN"] \in 1..NZones /\ d.res["ACTIVE"] \in 1..NZones
    BY <1>0, ConstTypes, HeldIsCounted DEF Held, Active
  <2>3. /\ b \in RawDevices /\ SameRest(e, b) /\ b.zone = e.zone
        /\ b.res["OPEN"] = d.res["OPEN"] - 1 /\ b.res["ACTIVE"] = d.res["ACTIVE"]
        /\ b.res["ZRWA"] = d.res["ZRWA"]
    BY <1>4, <2>2, ReleaseFacts DEF Resources
  <2> HIDE DEF b
  <2>4. /\ c \in RawDevices /\ SameRest(b, c) /\ c.zone = e.zone
        /\ c.res["OPEN"] = d.res["OPEN"] - 1 /\ c.res["ACTIVE"] = d.res["ACTIVE"] - 1
        /\ c.res["ZRWA"] = d.res["ZRWA"]
    BY <2>2, <2>3, ReleaseFacts DEF Resources
  <2> HIDE DEF c
  <2>5. /\ f \in RawDevices /\ SameRest(c, f) /\ f.res = c.res
        /\ f.zone = [c.zone EXCEPT ![z] = [state |-> "FULL", wp |-> c.zone[z].wp, zrwav |-> c.zone[z].zrwav]]
    BY <2>4, ChangeStateFacts DEF ZoneStates
  <2>6. [state |-> "FULL", wp |-> c.zone[z].wp, zrwav |-> c.zone[z].zrwav] = fn
    BY <1>3, <1>7, <2>4
  <2>7. fn.state = "FULL" /\ fn.wp = m /\ fn.zrwav = en.zrwav
    OBVIOUS
  <2> HIDE DEF f, fn
  <2>8. f.zone = [d.zone EXCEPT ![z] = fn]
    BY <1>0, <1>4, <2>4, <2>5, <2>6
  <2>9. ZoneOK(z, fn)
    <3>1. fn.zrwav <=> zn.zrwav
      BY <1>3, <2>7
    <3> QED BY <1>1, <1>2, <1>5, <2>7, <3>1 DEF ZoneOK
  <2>10. DevOK(f)
    <3>1. In(fn.state \in Opened) = 0 /\ In(fn.state \in Active) = 0 /\ In(fn.state \in Active /\ fn.zrwav) = 0
      BY <2>7 DEF In, Opened, Active
    <3> QED BY <1>0, <1>p, <1>o, <2>4, <2>5, <2>8, <2>9, <3>1, ConstTypes, ZoneChange
  <2>11. f.zone[z] = fn /\ \A y \in Zones \ {z} : f.zone[y] = d.zone[y]
    BY <1>0, <2>8
  <2> QED BY <1>4, <1>m, <2>1, <2>3, <2>4, <2>5, <2>7, <2>10, <2>11 DEF SameRest
<1>9. CASE m # Slba(z) + ZoneSize
  <2>1. IncreaseWp(d, z, n) = e
    BY <1>3, <1>6, <1>7, <1>9
  <2>2. ZoneOK(z, en)
    <3>1. en.zrwav <=> zn.zrwav
      BY <1>3
    <3> QED BY <1>1, <1>2, <1>3, <1>5, <1>9, <3>1 DEF ZoneOK, Active, Opened
  <2>3. DevOK(e)
    <3>1. In(en.state \in Active /\ en.zrwav) = In(zn.state \in Active /\ zn.zrwav)
      BY <1>3
    <3> QED BY <1>0, <1>3, <1>4, <1>p, <1>o, <2>2, <3>1, ConstTypes, ZoneChange
  <2> QED BY <1>3, <1>4, <1>7, <1>m, <2>1, <2>3
<1> QED BY <1>8, <1>9

(* Blocks w writes lie in one zone. *)
LEMMA OneZoneFacts ==
    ASSUME NEW w \in Writes
    PROVE  LET z == ZoneOf(w.slba)
           IN  /\ w.slba \in Lbas /\ z \in Zones /\ w.slba \in Nat /\ w.len \in Nat \ {0}
               /\ w.slba >= Slba(z)
               /\ OneZone(w) => /\ w.slba + w.len <= Slba(z) + ZoneSize
                                /\ \A l \in Blocks(w) : l \in Lbas /\ ZoneOf(l) = z
<1> DEFINE z == ZoneOf(w.slba)
<1>1. /\ w \in [slba : Starts, len : Lens, ok : BOOLEAN] /\ Blocks(w) \subseteq Lbas
      /\ w.slba \in Nat /\ w.len \in Nat \ {0}
  BY ConstTypes DEF Writes
<1>2. w.slba \in Blocks(w) /\ w.slba + w.len - 1 \in Blocks(w)
  BY <1>1 DEF Blocks
<1>3. w.slba \in Lbas /\ w.slba + w.len - 1 \in Lbas /\ z \in Zones
  BY <1>1, <1>2, ZoneInRange
<1>4. /\ Slba(z) \in Nat
      /\ \A l \in Lbas : ZoneOf(l) = z <=> Slba(z) <= l /\ l < Slba(z) + ZoneSize
  <2> HIDE DEF z
  <2> QED BY <1>3, ZoneEnds
<1>5. ASSUME OneZone(w)
      PROVE  w.slba + w.len <= Slba(z) + ZoneSize /\ \A l \in Blocks(w) : l \in Lbas /\ ZoneOf(l) = z
  <2>1. w.slba + w.len - 1 < Slba(z) + ZoneSize /\ Slba(z) <= w.slba
    <3>1. ZoneOf(w.slba + w.len - 1) = z
      BY <1>5 DEF OneZone
    <3> QED BY <1>3, <1>4, <3>1
  <2>2. ASSUME NEW l \in Blocks(w) PROVE l \in Lbas /\ ZoneOf(l) = z
    <3>1. l \in Lbas /\ l >= w.slba /\ l <= w.slba + w.len - 1 /\ l \in Int
      BY <1>1 DEF Blocks
    <3> HIDE DEF z
    <3> QED BY <1>1, <1>4, <2>1, <3>1, ConstTypes
  <2> HIDE DEF z
  <2> QED BY <1>1, <1>4, <2>1, <2>2, ConstTypes
<1> HIDE DEF z
<1>6. w.slba >= Slba(z)
  BY <1>3, <1>4 DEF z
<1> QED BY <1>1, <1>3, <1>5, <1>6 DEF z

(* A plain write at the pointer of a zone that is written in whole units   *)
(* queues the writeback of exactly the blocks it took from the buffer.     *)
LEMMA CompletedWhole ==
    ASSUME NEW lba \in Lbas, NEW n \in Nat, n % WriteUnit = 0,
           (lba - Slba(ZoneOf(lba))) % WriteUnit = 0
    PROVE  Completed(lba, n) \in Nat /\ WriteUnit * Completed(lba, n) = n
<1> USE ConstTypes
<1> DEFINE z == ZoneOf(lba)
<1>1. z \in Nat /\ z \in Zones /\ lba \in Nat /\ Slba(z) \in Nat /\ lba >= Slba(z)
  <2>1. z \in Zones /\ lba \in Nat
    BY ZoneInRange
  <2> QED BY <2>1, ZoneEnds DEF Zones
<1>2. PICK k \in Nat : n = k * WriteUnit
  BY MultipleOf
<1>3. PICK j \in Nat : lba - Slba(z) = j * WriteUnit
  <2>1. lba - Slba(z) \in Nat /\ (lba - Slba(z)) % WriteUnit = 0
    BY <1>1
  <2> HIDE DEF z
  <2> QED BY <2>1, MultipleOf
<1>4. PICK c \in Nat : ZoneSize = c * WriteUnit
  BY ZnsAssumption, MultipleOf
<1> DEFINE b == z * (c * Oneshot)
           a == b + j * Oneshot
<1> HIDE DEF z
<1>5. b \in Nat /\ a \in Nat /\ k * Oneshot \in Nat
  <2>1. c * Oneshot \in Nat /\ j * Oneshot \in Nat
    BY <1>3, <1>4
  <2>2. b \in Nat
    BY <1>1, <2>1
  <2> QED BY <1>2, <2>1, <2>2
<1>6. Slba(z) \div SecsPerPg = b
  <2>1. Slba(z) = b * SecsPerPg + 0
    <3>1. Slba(z) = z * (c * (Oneshot * SecsPerPg))
      BY <1>4 DEF Slba, WriteUnit
    <3>2. z * (c * (Oneshot * SecsPerPg)) = (z * (c * Oneshot)) * SecsPerPg
      BY <1>1, <1>4
    <3> QED BY <1>5, <3>1, <3>2
  <2> HIDE DEF b
  <2>2. (b * SecsPerPg + 0) \div SecsPerPg = b
    BY <1>5, ModOf
  <2> QED BY <2>1, <2>2
<1>7. lba \div SecsPerPg = a
  <2>1. lba = a * SecsPerPg + 0
    <3>1. lba = Slba(z) + j * (Oneshot * SecsPerPg)
      BY <1>1, <1>3 DEF WriteUnit
    <3>2. Slba(z) = b * SecsPerPg
      <4>1. Slba(z) = z * (c * (Oneshot * SecsPerPg))
        BY <1>4 DEF Slba, WriteUnit
      <4> QED BY <1>1, <1>4, <4>1
    <3>3. (b + j * Oneshot) * SecsPerPg = b * SecsPerPg + (j * Oneshot) * SecsPerPg
      <4> HIDE DEF b
      <4> QED BY <1>3, <1>5
    <3>4. j * (Oneshot * SecsPerPg) = (j * Oneshot) * SecsPerPg
      BY <1>3
    <3> QED BY <1>5, <3>1, <3>2, <3>3, <3>4
  <2> HIDE DEF a
  <2>2. (a * SecsPerPg + 0) \div SecsPerPg = a
    BY <1>5, ModOf
  <2> QED BY <2>1, <2>2
<1>8. n \div SecsPerPg = k * Oneshot
  <2> DEFINE p == k * Oneshot
  <2>1. n = p * SecsPerPg + 0
    BY <1>2 DEF WriteUnit
  <2>2. p \in Nat
    BY <1>5
  <2> HIDE DEF p
  <2>3. (p * SecsPerPg + 0) \div SecsPerPg = p
    BY <2>2, ModOf
  <2> QED BY <2>1, <2>3 DEF p
<1> HIDE DEF b
<1>9. Cardinality(LastOnes(a, b, k, Oneshot)) = k
  <2>1. a = b + j * Oneshot
    OBVIOUS
  <2> HIDE DEF a
  <2> QED BY <1>2, <1>3, <1>5, <2>1, LastOfRun
<1>10. Completed(lba, n) = k
  <2> HIDE DEF a
  <2> QED BY <1>6, <1>7, <1>8, <1>9 DEF Completed, LastOnes, z
<1> QED BY <1>2, <1>10

(* What a write commits implicitly stays in its zone, in flush groups. *)
LEMMA FlushInZone ==
    ASSUME NEW d, DevOK(d), NEW w \in Writes, OneZone(w),
           d.zone[ZoneOf(w.slba)].zrwav, w.slba >= d.zone[ZoneOf(w.slba)].wp
    PROVE  LET z == ZoneOf(w.slba)
               n == ImplicitFlush(d, w)
           IN  /\ n \in Nat
               /\ d.zone[z].wp + n <= Slba(z) + ZoneSize
               /\ (d.zone[z].wp + n - Slba(z)) % LbasZrwafg = 0
<1> USE ConstTypes
<1> DEFINE z     == ZoneOf(w.slba)
           wp    == d.zone[z].wp
           elba  == w.slba + w.len - 1
           start == wp + LbasZrwa
           n     == ImplicitFlush(d, w)
<1>1. /\ z \in Zones /\ w.slba \in Nat /\ w.len \in Nat \ {0}
      /\ w.slba + w.len <= Slba(z) + ZoneSize
  BY OneZoneFacts
<1>d. n = IF elba >= start THEN ((elba - start + 1 + LbasZrwafg - 1) \div LbasZrwafg) * LbasZrwafg
          ELSE IF elba = Elba(z) THEN elba - wp + 1 ELSE 0
  BY DEF ImplicitFlush
<1>w. w.slba >= wp /\ d.zone[z].zrwav
  OBVIOUS
<1> HIDE DEF z, n
<1>2. /\ Slba(z) \in Nat /\ Elba(z) = Slba(z) + ZoneSize - 1
      /\ wp \in Nat /\ wp >= Slba(z) /\ (wp - Slba(z)) % LbasZrwafg = 0
  <2>1. wp \in Nat /\ ZoneOK(z, d.zone[z])
    BY <1>1, DevFacts
  <2> QED BY <1>1, <1>w, <2>1, ZoneEnds DEF ZoneOK
<1>3. PICK a \in Nat : wp - Slba(z) = a * LbasZrwafg
  <2>1. wp - Slba(z) \in Nat
    BY <1>2
  <2> HIDE DEF wp
  <2> QED BY <1>2, <2>1, MultipleOf
<1>4. PICK b \in Nat : ZoneSize = b * LbasZrwafg
  BY ZnsAssumption, MultipleOf
<1> HIDE DEF wp
<1>5. CASE elba >= start
  <2> DEFINE x == elba - start + 1 + LbasZrwafg - 1
             k == x \div LbasZrwafg
  <2>1. x \in Nat /\ x = elba - wp - LbasZrwa + LbasZrwafg
    BY <1>1, <1>2, <1>5
  <2>2. k \in Nat /\ k * LbasZrwafg <= x /\ k * LbasZrwafg \in Nat
    <3> HIDE DEF x
    <3> QED BY <2>1, AlignDownFacts, DivFacts
  <2>3. n = k * LbasZrwafg
    BY <1>d, <1>5
  <2> HIDE DEF x, k
  <2>4. (a + k) * LbasZrwafg < b * LbasZrwafg + LbasZrwafg
    <3>1. (a + k) * LbasZrwafg = (wp - Slba(z)) + n
      BY <1>3, <2>2, <2>3
    <3>2. wp - Slba(z) + n <= elba - Slba(z) + LbasZrwafg
      BY <1>1, <1>2, <2>1, <2>2, <2>3
    <3>3. elba - Slba(z) < ZoneSize
      BY <1>1, <1>2
    <3>4. n \in Nat
      BY <2>2, <2>3
    <3> HIDE DEF elba
    <3>5. elba \in Int
      BY <1>1 DEF elba
    <3> QED BY <1>2, <1>4, <3>1, <3>2, <3>3, <3>4, <3>5
  <2>5. (a + k) * LbasZrwafg <= b * LbasZrwafg
    BY <1>3, <1>4, <2>2, <2>4, MultipleBelow
  <2>6. n \in Nat /\ wp + n - Slba(z) = (a + k) * LbasZrwafg /\ wp + n - Slba(z) \in Nat
    BY <1>2, <1>3, <2>2, <2>3
  <2>7. (wp + n - Slba(z)) % LbasZrwafg = 0
    <3> DEFINE t == wp + n - Slba(z)
    <3>1. t \in Nat /\ t = (a + k) * LbasZrwafg /\ a + k \in Nat
      BY <1>3, <2>2, <2>6
    <3> HIDE DEF t
    <3>2. t % LbasZrwafg = 0
      BY <3>1, MultipleOf
    <3> QED BY <3>2 DEF t
  <2>8. wp + n <= Slba(z) + ZoneSize
    BY <1>2, <1>4, <2>5, <2>6
  <2> QED BY <2>6, <2>7, <2>8 DEF n, wp, z
<1>6. CASE ~(elba >= start) /\ elba = Elba(z)
  <2>1. n = elba - wp + 1
    BY <1>d, <1>6
  <2>2. n \in Nat /\ wp + n = Slba(z) + ZoneSize
    BY <1>1, <1>2, <1>6, <1>w, <2>1
  <2>3. (wp + n - Slba(z)) % LbasZrwafg = 0
    <3>1. wp + n - Slba(z) = ZoneSize
      BY <1>2, <2>2
    <3> QED BY <3>1, ZnsAssumption
  <2>4. wp + n <= Slba(z) + ZoneSize
    BY <1>2, <2>2
  <2> QED BY <2>2, <2>3, <2>4 DEF n, wp, z
<1>7. CASE ~(elba >= start) /\ elba # Elba(z)
  <2>1. n = 0
    BY <1>d, <1>7
  <2>2. wp + n = wp /\ wp <= Slba(z) + ZoneSize
    BY <1>1, <1>2, <1>w, <2>1
  <2> QED BY <1>2, <2>1, <2>2 DEF n, wp, z
<1> QED BY <1>5, <1>6, <1>7

(* What a write does to a sound device, accepted, deferred or refused. *)
Written(d, w, out) ==
    LET z == ZoneOf(w.slba)
    IN  /\ DevOK(out.dev) /\ out.dev.data = d.data
        /\ \A y \in Zones \ {z} : out.dev.zone[y] = d.zone[y]
        /\ out.dev.zone[z].wp >= d.zone[z].wp
        /\ d.zone[z].state = "FULL" => out.dev.zone[z].state = "FULL"
        /\ out.status = "SUCCESS" => OneZone(w) /\ (~d.zone[z].zrwav => w.slba >= d.zone[z].wp)
        /\ out.to \in Buffers /\ out.backs \in Nat
        /\ out.to = Ssd => WriteUnit * out.backs = IF out.status = "SUCCESS" THEN w.len ELSE 0

LEMMA RefuseKeeps ==
    ASSUME NEW d, DevOK(d), NEW w \in Writes, NEW s, s # "SUCCESS"
    PROVE  Written(d, w, Refuse(d, s)) /\ Refuse(d, s).dev.wbuf = d.wbuf
<1>1. ZoneOf(w.slba) \in Zones
  BY OneZoneFacts
<1>2. d.zone[ZoneOf(w.slba)].wp \in Nat
  BY <1>1, DevFacts
<1>3. WriteUnit * 0 = 0 /\ Ssd \in Buffers
  BY ConstTypes DEF Buffers
<1> QED BY <1>2, <1>3 DEF Written, Refuse

LEMMA PlainWriteKeeps ==
    ASSUME NEW d, DevOK(d), NEW w \in Writes, ~d.zone[ZoneOf(w.slba)].zrwav
    PROVE  Written(d, w, PlainWrite(d, w)) /\ PlainWrite(d, w).dev.wbuf = d.wbuf
<1> DEFINE z == ZoneOf(w.slba)
           s == d.zone[z].state
           n == Completed(w.slba, w.len)
           opening == s = "EMPTY" => ~Exhausted(d, "ACTIVE")
           room == s \in {"EMPTY", "CLOSED"} => ~Exhausted(d, "OPEN")
           good == /\ w.len % WriteUnit = 0 /\ OneZone(w) /\ w.slba = d.zone[z].wp
                   /\ s = "EMPTY" => w.slba = Slba(z)
                   /\ s \in Active \cup {"EMPTY"} /\ opening /\ room
           Impl(e) == IncreaseWp(ChangeState(e, z, "OPENED_IMPL"), z, w.len)
<1>0. /\ w.slba \in Lbas /\ z \in Zones /\ w.slba \in Nat /\ w.len \in Nat \ {0}
      /\ OneZone(w) => w.slba + w.len <= Slba(z) + ZoneSize
  BY OneZoneFacts
<1>1. CASE ~good
  <2>1. \/ PlainWrite(d, w) = Refuse(d, "INVALID_WRITE")
        \/ PlainWrite(d, w) = Refuse(d, "ERR_BOUNDARY")
        \/ PlainWrite(d, w) = Refuse(d, "ERR_OFFLINE")
        \/ PlainWrite(d, w) = Refuse(d, "NO_ACTIVE_ZONE")
        \/ PlainWrite(d, w) = Refuse(d, "NO_OPEN_ZONE")
    BY <1>1 DEF PlainWrite
  <2> QED BY <2>1, RefuseKeeps
<1>2. CASE good
  <2>0. d.zone[z].wp \in Nat /\ ZoneOK(z, d.zone[z]) /\ ~d.zone[z].zrwav
    BY <1>0, DevFacts
  <2>1. n \in Nat /\ WriteUnit * n = w.len
    <3>1. (w.slba - Slba(z)) % WriteUnit = 0
      BY <1>2, <2>0 DEF ZoneOK
    <3> QED BY <1>0, <1>2, <3>1, CompletedWhole
  <2>2. ASSUME NEW e, DevOK(e), SameRest(d, e), e.zone[z].state \in Opened, e.zone[z].wp = d.zone[z].wp,
               ~e.zone[z].zrwav, \A y \in Zones \ {z} : e.zone[y] = d.zone[y], s # "FULL",
               PlainWrite(d, w) = Accept(IncreaseWp(e, z, w.len), n, Ssd)
        PROVE  Written(d, w, PlainWrite(d, w)) /\ PlainWrite(d, w).dev.wbuf = d.wbuf
    <3> DEFINE f == IncreaseWp(e, z, w.len)
    <3> HIDE DEF z, n
    <3>1. /\ DevOK(f) /\ SameRest(e, f) /\ \A y \in Zones \ {z} : f.zone[y] = e.zone[y]
          /\ f.zone[z].wp = e.zone[z].wp + w.len
      <4>1. e.zone[z].wp + w.len <= Slba(z) + ZoneSize /\ w.len % WriteUnit = 0 /\ w.len \in Nat
        BY <1>0, <1>2, <2>0, <2>2
      <4> QED BY <1>0, <2>2, <4>1, IncreaseWpKeeps
    <3>2. PlainWrite(d, w) = [dev |-> f, status |-> "SUCCESS", backs |-> n, to |-> Ssd]
      BY <2>2 DEF Accept
    <3> HIDE DEF f
    <3>3. Ssd \in Buffers /\ f.zone[z].wp >= d.zone[z].wp /\ f.data = d.data /\ f.wbuf = d.wbuf
      BY <1>0, <2>0, <2>2, <3>1 DEF Buffers, SameRest
    <3>4. w.slba >= d.zone[z].wp /\ OneZone(w)
      BY <1>0, <1>2, <2>0
    <3> QED BY <2>1, <2>2, <3>1, <3>2, <3>3, <3>4 DEF Written, z
  <2>3. CASE s = "EMPTY"
    <3>1. PlainWrite(d, w) = Accept(Impl(Acquire(Acquire(d, "ACTIVE"), "OPEN")), n, Ssd)
      BY <1>2, <2>3 DEF PlainWrite, Active, Opened
    <3> DEFINE e == ChangeState(Acquire(Acquire(d, "ACTIVE"), "OPEN"), z, "OPENED_IMPL")
    <3>2. ~Exhausted(d, "ACTIVE") /\ ~Exhausted(d, "OPEN")
      BY <1>2, <2>3
    <3> HIDE DEF z, n
    <3>3. /\ DevOK(e) /\ SameRest(d, e) /\ \A y \in Zones \ {z} : e.zone[y] = d.zone[y]
          /\ e.zone[z].state = "OPENED_IMPL" /\ e.zone[z].wp = d.zone[z].wp /\ e.zone[z].zrwav = d.zone[z].zrwav
      BY <1>0, <2>3, <3>2, OpenEmpty
    <3>4. PlainWrite(d, w) = Accept(IncreaseWp(e, z, w.len), n, Ssd)
      BY <3>1
    <3> HIDE DEF e
    <3>5. ~e.zone[z].zrwav /\ e.zone[z].state \in Opened /\ s # "FULL"
      BY <2>0, <2>3, <3>3 DEF Opened
    <3> QED BY <2>2, <3>3, <3>4, <3>5
  <2>4. CASE s = "CLOSED"
    <3>1. PlainWrite(d, w) = Accept(Impl(Acquire(d, "OPEN")), n, Ssd)
      BY <1>2, <2>4 DEF PlainWrite, Active, Opened
    <3> DEFINE e == ChangeState(Acquire(d, "OPEN"), z, "OPENED_IMPL")
    <3>2. ~Exhausted(d, "OPEN")
      BY <1>2, <2>4
    <3> HIDE DEF z, n
    <3>3. /\ DevOK(e) /\ SameRest(d, e) /\ \A y \in Zones \ {z} : e.zone[y] = d.zone[y]
          /\ e.zone[z].state = "OPENED_IMPL" /\ e.zone[z].wp = d.zone[z].wp /\ e.zone[z].zrwav = d.zone[z].zrwav
      BY <1>0, <2>4, <3>2, OpenClosed
    <3>4. PlainWrite(d, w) = Accept(IncreaseWp(e, z, w.len), n, Ssd)
      BY <3>1
    <3> HIDE DEF e
    <3>5. ~e.zone[z].zrwav /\ e.zone[z].state \in Opened /\ s # "FULL"
      BY <2>0, <2>4, <3>3 DEF Opened
    <3> QED BY <2>2, <3>3, <3>4, <3>5
  <2>5. CASE s \in Opened
    <3>1. PlainWrite(d, w) = Accept(IncreaseWp(d, z, w.len), n, Ssd)
      BY <1>2, <2>5 DEF PlainWrite, Active, Opened
    <3>2. SameRest(d, d) /\ s # "FULL"
      BY <2>5 DEF SameRest, Opened
    <3> HIDE DEF z, n
    <3> QED BY <2>0, <2>2, <2>5, <3>1, <3>2
  <2> QED BY <1>2, <2>3, <2>4, <2>5 DEF Active
<1> QED BY <1>1, <1>2

(* Only the buffer of zone z changes. *)
LEMMA ZbufChange ==
    ASSUME NEW d, DevOK(d), NEW z \in Zones, NEW v \in Nat
    PROVE  LET e == [d EXCEPT !.zbuf[z] = v]
           IN  DevOK(e) /\ e.zone = d.zone /\ e.res = d.res /\ e.wbuf = d.wbuf /\ e.data = d.data
<1> DEFINE e == [d EXCEPT !.zbuf[z] = v]
<1>1. d \in Devices
  BY DEF DevOK
<1>2. e \in Devices /\ e.zone = d.zone /\ e.res = d.res /\ e.wbuf = d.wbuf /\ e.data = d.data
  BY <1>1 DEF Devices
<1> HIDE DEF e
<1>3. DevOK(e)
  BY <1>2, SameZones
<1> QED BY <1>2, <1>3 DEF e

(* The end of a write through a random write area of an open zone. *)
LEMMA ZrwaFlushKeeps ==
    ASSUME NEW d, DevOK(d), NEW w \in Writes, OneZone(w),
           d.zone[ZoneOf(w.slba)].zrwav, d.zone[ZoneOf(w.slba)].state \in Opened,
           w.slba >= d.zone[ZoneOf(w.slba)].wp
    PROVE  Written(d, w, ZrwaFlush(d, w)) /\ ZrwaFlush(d, w).dev.wbuf = d.wbuf
<1> DEFINE z == ZoneOf(w.slba)
           n == ImplicitFlush(d, w)
           c == [d EXCEPT !.zbuf[z] = @ - n]
           f == IncreaseWp(c, z, n)
           k == Completed(d.zone[z].wp, n)
<1>0. z \in Zones /\ d.zone[z].wp \in Nat /\ d.zbuf[z] \in Nat
  <2>1. z \in Zones /\ d \in Devices
    BY OneZoneFacts DEF DevOK
  <2> QED BY <2>1, DevFacts DEF Devices
<1>1. z # Ssd /\ z \in Buffers
  BY <1>0, ConstTypes DEF Zones, Ssd, Buffers
<1>2. /\ n \in Nat /\ d.zone[z].wp + n <= Slba(z) + ZoneSize
      /\ (d.zone[z].wp + n - Slba(z)) % LbasZrwafg = 0
  BY FlushInZone
<1>3. /\ d.zone[z].state \in Opened /\ d.zone[z].state # "FULL" /\ d.zone[z].zrwav
  BY DEF Opened
<1>4. CASE n <= 0
  <2>1. ZrwaFlush(d, w) = [dev |-> d, status |-> "SUCCESS", backs |-> 0, to |-> z]
    BY <1>4 DEF ZrwaFlush, Accept
  <2> HIDE DEF z
  <2> QED BY <1>0, <1>1, <1>3, <2>1 DEF Written, z
<1>5. CASE ~(n <= 0) /\ d.zbuf[z] < n
  <2>1. ZrwaFlush(d, w) = Refuse(d, "DEFERRED")
    BY <1>5 DEF ZrwaFlush
  <2> QED BY <2>1, RefuseKeeps
<1>6. CASE ~(n <= 0) /\ ~(d.zbuf[z] < n)
  <2>1. ZrwaFlush(d, w) = [dev |-> f, status |-> "SUCCESS", backs |-> k, to |-> z]
    BY <1>6 DEF ZrwaFlush, Accept
  <2>2. k \in Nat
    <3> DEFINE first == d.zone[z].wp \div SecsPerPg
               lst   == first + (n \div SecsPerPg) - 1
               base  == Slba(ZoneOf(d.zone[z].wp)) \div SecsPerPg
               ps    == {p \in first..lst : (p - base) % Oneshot = Oneshot - 1}
    <3>1. first \in Int /\ lst \in Int
      <4>1. d.zone[z].wp \div SecsPerPg \in Nat /\ n \div SecsPerPg \in Nat
        <5> HIDE DEF n, z
        <5> QED BY <1>0, <1>2, ConstTypes, DivFacts
      <4> QED BY <4>1
    <3> HIDE DEF first, lst, base
    <3>2. IsFiniteSet(first..lst)
      BY <3>1, FS_Interval
    <3>3. IsFiniteSet(ps)
      BY <3>2, FS_Subset
    <3>4. Cardinality(ps) \in Nat
      BY <3>3, FS_CardinalityType
    <3> QED BY <3>4 DEF Completed, ps, first, lst, base
  <2> HIDE DEF z, n, k
  <2>3. /\ DevOK(c) /\ c.zone = d.zone /\ c.res = d.res /\ c.wbuf = d.wbuf /\ c.data = d.data
    <3> DEFINE v == d.zbuf[z] - n
    <3>1. v \in Nat
      BY <1>0, <1>2, <1>6
    <3>2. c = [d EXCEPT !.zbuf[z] = v]
      OBVIOUS
    <3> HIDE DEF v, c
    <3> QED BY <1>0, <3>1, <3>2, ZbufChange
  <2> HIDE DEF c
  <2>4. /\ DevOK(f) /\ SameRest(c, f) /\ \A y \in Zones \ {z} : f.zone[y] = c.zone[y]
        /\ f.zone[z].wp = c.zone[z].wp + n
    <3>1. /\ c.zone[z].state \in Opened /\ c.zone[z].wp + n <= Slba(z) + ZoneSize
          /\ (c.zone[z].wp + n - Slba(z)) % LbasZrwafg = 0 /\ c.zone[z].zrwav
      BY <1>2, <1>3, <2>3
    <3> QED BY <1>0, <1>2, <2>3, <3>1, IncreaseWpKeeps
  <2> HIDE DEF f
  <2>5. f.zone[z].wp >= d.zone[z].wp /\ f.data = d.data /\ f.wbuf = d.wbuf
    BY <1>0, <1>2, <2>3, <2>4 DEF SameRest
  <2> QED BY <1>1, <1>3, <2>1, <2>2, <2>3, <2>4, <2>5 DEF Written, z
<1> QED BY <1>4, <1>5, <1>6

LEMMA ZrwaWriteKeeps ==
    ASSUME NEW d, DevOK(d), NEW w \in Writes, d.zone[ZoneOf(w.slba)].zrwav
    PROVE  Written(d, w, ZrwaWrite(d, w)) /\ ZrwaWrite(d, w).dev.wbuf = d.wbuf
<1> DEFINE z    == ZoneOf(w.slba)
           s    == d.zone[z].state
           wp   == d.zone[z].wp
           good == /\ w.len % WriteUnit = 0 /\ OneZone(w)
                   /\ ~(w.slba < wp \/ w.slba + w.len - 1 > wp + 2 * LbasZrwa - 1)
                   /\ s \notin {"FULL", "READ_ONLY", "OFFLINE"}
                   /\ s \in {"CLOSED", "EMPTY"} => ~Exhausted(d, "OPEN") /\ ~(d.zbuf[z] < LbasZrwa)
           b == ChangeState(Acquire(d, "OPEN"), z, "OPENED_IMPL")
           c == [b EXCEPT !.zbuf[z] = @ - LbasZrwa]
<1>0. /\ z \in Zones /\ w.slba \in Nat /\ w.len \in Nat \ {0}
      /\ wp \in Nat /\ d.zbuf[z] \in Nat /\ ZoneOK(z, d.zone[z]) /\ d.zone[z].zrwav
      /\ s \in Active \cup {"EMPTY", "FULL"}
  <2>1. z \in Zones /\ w.slba \in Nat /\ w.len \in Nat \ {0} /\ d \in Devices
    BY OneZoneFacts DEF DevOK
  <2> QED BY <2>1, DevFacts DEF Devices
<1>1. CASE ~good
  <2>1. \E e \in {"INVALID_WRITE", "ERR_BOUNDARY", "ERR_FULL", "ERR_READ_ONLY", "ERR_OFFLINE",
                   "NO_OPEN_ZONE", "BUG"} : ZrwaWrite(d, w) = Refuse(d, e)
    BY <1>1 DEF ZrwaWrite
  <2> QED BY <2>1, RefuseKeeps
<1>2. CASE good
  <2>1. w.slba >= wp
    BY <1>0, <1>2
  <2>2. CASE s \in Opened
    <3>1. ZrwaWrite(d, w) = ZrwaFlush(d, w)
      BY <1>2, <2>2 DEF ZrwaWrite, Opened
    <3> QED BY <1>2, <2>1, <2>2, <3>1, ZrwaFlushKeeps
  <2>3. CASE s \notin Opened
    <3>1. s = "CLOSED" /\ ~Exhausted(d, "OPEN") /\ ~(d.zbuf[z] < LbasZrwa)
      BY <1>0, <1>2, <2>3 DEF ZoneOK, Active, Opened
    <3>2. ZrwaWrite(d, w) = ZrwaFlush(c, w)
      BY <1>2, <2>3, <3>1 DEF ZrwaWrite, Opened
    <3> HIDE DEF z
    <3>3. /\ DevOK(b) /\ SameRest(d, b) /\ \A y \in Zones \ {z} : b.zone[y] = d.zone[y]
          /\ b.zone[z].state = "OPENED_IMPL" /\ b.zone[z].wp = d.zone[z].wp
          /\ b.zone[z].zrwav = d.zone[z].zrwav
      BY <1>0, <3>1, OpenClosed
    <3> HIDE DEF b
    <3>4. DevOK(c) /\ c.zone = b.zone /\ c.res = b.res /\ c.wbuf = b.wbuf /\ c.data = b.data
      <4> DEFINE v == d.zbuf[z] - LbasZrwa
      <4>1. v \in Nat
        BY <1>0, <3>1, ConstTypes
      <4>2. c = [b EXCEPT !.zbuf[z] = v]
        BY <3>3 DEF SameRest
      <4> HIDE DEF v, c
      <4> QED BY <1>0, <3>3, <4>1, <4>2, ZbufChange
    <3> HIDE DEF c
    <3>5. Written(c, w, ZrwaFlush(c, w)) /\ ZrwaFlush(c, w).dev.wbuf = c.wbuf
      <4>1. c.zone[z].zrwav /\ c.zone[z].state \in Opened /\ w.slba >= c.zone[z].wp
        BY <1>0, <2>1, <3>3, <3>4 DEF Opened
      <4> QED BY <1>2, <3>4, <4>1, ZrwaFlushKeeps DEF z
    <3>6. c.wbuf = d.wbuf /\ c.data = d.data /\ c.zone[z].wp = d.zone[z].wp /\ s # "FULL"
      BY <3>1, <3>3, <3>4 DEF SameRest
    <3> QED BY <1>0, <3>2, <3>3, <3>4, <3>5, <3>6 DEF Written, z
  <2> QED BY <2>2, <2>3
<1> QED BY <1>1, <1>2

(* The write buffer pays for the write, unless it cannot. *)
LEMMA ZnsWriteKeeps ==
    ASSUME NEW d, DevOK(d), NEW w \in Writes
    PROVE  LET out == ZnsWrite(d, w)
           IN  /\ Written(d, w, out)
               /\ IF d.wbuf < w.len THEN out.status # "SUCCESS" /\ out.to = Ssd /\ out.dev.wbuf = d.wbuf
                                    ELSE out.dev.wbuf = d.wbuf - w.len
<1> DEFINE z == ZoneOf(w.slba)
           e == [d EXCEPT !.wbuf = @ - w.len]
<1>0. z \in Zones /\ w.len \in Nat \ {0} /\ d \in Devices /\ d.wbuf \in Nat
  BY OneZoneFacts DEF DevOK, Devices
<1>1. CASE d.wbuf < w.len
  <2>1. ZnsWrite(d, w) = Refuse(d, "DEFERRED")
    BY <1>1 DEF ZnsWrite
  <2>2. Refuse(d, "DEFERRED").status # "SUCCESS" /\ Refuse(d, "DEFERRED").to = Ssd
    BY DEF Refuse
  <2> QED BY <1>1, <2>1, <2>2, RefuseKeeps
<1>2. CASE ~(d.wbuf < w.len)
  <2>1. e \in Devices /\ e.zone = d.zone /\ e.res = d.res /\ e.wbuf = d.wbuf - w.len /\ e.data = d.data
    <3> DEFINE v == d.wbuf - w.len
    <3>1. v \in Nat
      BY <1>0, <1>2
    <3> HIDE DEF v
    <3>2. /\ [d EXCEPT !.wbuf = v] \in Devices /\ [d EXCEPT !.wbuf = v].zone = d.zone
          /\ [d EXCEPT !.wbuf = v].res = d.res /\ [d EXCEPT !.wbuf = v].wbuf = v
          /\ [d EXCEPT !.wbuf = v].data = d.data
      BY <1>0, <3>1 DEF Devices
    <3> QED BY <3>2 DEF v
  <2>2. ZnsWrite(d, w) = IF d.zone[z].zrwav THEN ZrwaWrite(e, w) ELSE PlainWrite(e, w)
    BY <1>2 DEF ZnsWrite
  <2> HIDE DEF e
  <2>3. DevOK(e)
    BY <2>1, SameZones
  <2>4. Written(e, w, ZnsWrite(d, w)) /\ ZnsWrite(d, w).dev.wbuf = e.wbuf
    <3>1. CASE d.zone[z].zrwav
      BY <2>1, <2>2, <2>3, <3>1, ZrwaWriteKeeps
    <3>2. CASE ~d.zone[z].zrwav
      BY <2>1, <2>2, <2>3, <3>2, PlainWriteKeeps
    <3> QED BY <3>1, <3>2
  <2> QED BY <1>2, <2>1, <2>4 DEF Written
<1> QED BY <1>1, <1>2

-----------------------------------------------------------------------------
(* The steps of the device. *)

(* e is d with this kind of data in the blocks of the write. *)
FilledAs(d, e, w, kind) ==
    /\ DevOK(e) /\ e.zone = d.zone /\ e.wbuf = d.wbuf
    /\ \A l \in Lbas : e.data[l] = IF l \in Blocks(w) THEN kind ELSE d.data[l]

LEMMA FillFacts ==
    ASSUME NEW d, DevOK(d), NEW w, NEW kind \in {"OLDER", "LAST", "REFUSED"}
    PROVE  FilledAs(d, Fill(d, w, kind), w, kind)
<1> DEFINE f == [l \in Lbas |-> IF l \in Blocks(w) THEN kind ELSE d.data[l]]
           e == [d EXCEPT !.data = f]
<1>1. d \in Devices
  BY DEF DevOK
<1>2. f \in [Lbas -> {"ZERO", "OLDER", "LAST", "REFUSED"}]
  BY <1>1 DEF Devices
<1>3. \A l \in Lbas : f[l] = IF l \in Blocks(w) THEN kind ELSE d.data[l]
  OBVIOUS
<1>4. Fill(d, w, kind) = e
  BY DEF Fill
<1> HIDE DEF f
<1>5. e \in Devices /\ e.zone = d.zone /\ e.res = d.res /\ e.wbuf = d.wbuf /\ e.data = f
  BY <1>1, <1>2 DEF Devices
<1> HIDE DEF e
<1>6. DevOK(e)
  BY <1>5, SameZones
<1> QED BY <1>3, <1>4, <1>5, <1>6 DEF FilledAs

(* A zone whose descriptor and data stay as they are moves on. *)
LEMMA StaysPut ==
    ASSUME NEW d, DevOK(d), NEW e, NEW z \in Zones, e.zone[z] = d.zone[z],
           \A l \in Lbas : ZoneOf(l) = z /\ e.data[l] = "OLDER" => d.data[l] = "OLDER"
    PROVE  MovesOn(d, e, z)
<1>1. d.zone[z].wp \in Nat /\ ZoneOK(z, d.zone[z])
  BY DevFacts
<1>2. ASSUME NEW l \in Slba(z)..(d.zone[z].wp - 1) PROVE l \in Lbas /\ ZoneOf(l) = z
  <2>1. NZones * ZoneSize \in Nat
    BY ConstTypes
  <2>2. l \in Lbas /\ Slba(z) <= l /\ l < Slba(z) + ZoneSize
    BY <1>1, <2>1, ZoneEnds, ConstTypes DEF ZoneOK, Lbas
  <2> QED BY <2>2, ZoneEnds
<1> QED BY <1>1, <1>2 DEF MovesOn

(* What an answered or deferred write does to the invariant. *)
LEMMA RunKeeps ==
    ASSUME ZIInv, NEW w \in Writes, Run(w, ZnsWrite(dev, w))
    PROVE  /\ DevOK(dev') /\ BufferAccounted'
           /\ backs' \in [Buffers -> Nat] /\ lost' \in Nat
           /\ bug' \in BOOLEAN /\ written' \subseteq Lbas /\ copies' \subseteq Writes
           /\ \A c \in copies' : c.ok => Blocks(c) \subseteq written'
           /\ \A l \in Lbas : (\A c \in copies' : l \notin Blocks(c)) => Settled(l)'
           /\ \A z \in Zones : MovesOn(dev, dev', z)
<1> DEFINE out == ZnsWrite(dev, w)
           z   == ZoneOf(w.slba)
           ww  == [w EXCEPT !.ok = (out.status = "SUCCESS")]
<1>0. /\ DevOK(dev) /\ BufferAccounted /\ backs \in [Buffers -> Nat] /\ lost \in Nat
      /\ written \subseteq Lbas /\ copies \subseteq Writes
      /\ \A c \in copies : c.ok => Blocks(c) \subseteq written
      /\ \A l \in Lbas : (\A c \in copies : l \notin Blocks(c)) => Settled(l)
  BY DEF ZIInv
<1>1. Written(dev, w, out)
  BY <1>0, ZnsWriteKeeps
<1>2. IF dev.wbuf < w.len THEN out.status # "SUCCESS" /\ out.to = Ssd /\ out.dev.wbuf = dev.wbuf
                          ELSE out.dev.wbuf = dev.wbuf - w.len
  BY <1>0, ZnsWriteKeeps
<1>3. /\ z \in Zones /\ w.len \in Nat \ {0} /\ Blocks(w) \subseteq Lbas /\ dev.wbuf \in Nat
      /\ w.slba \in Nat
      /\ OneZone(w) => \A l \in Blocks(w) : ZoneOf(l) = z
  BY <1>0, OneZoneFacts DEF Writes, DevOK, Devices
<1>4. ww \in Writes /\ Blocks(ww) = Blocks(w)
  <2>1. (out.status = "SUCCESS") \in BOOLEAN
    OBVIOUS
  <2> DEFINE p == (out.status = "SUCCESS")
  <2> HIDE DEF p
  <2>2. [w EXCEPT !.ok = p].slba = w.slba /\ [w EXCEPT !.ok = p].len = w.len
    BY DEF Writes
  <2>3. Blocks([w EXCEPT !.ok = p]) = Blocks(w)
    BY <2>2 DEF Blocks
  <2>4. [w EXCEPT !.ok = p] \in [slba : Starts, len : Lens, ok : BOOLEAN]
    BY <2>1 DEF Writes, p
  <2>5. [w EXCEPT !.ok = p] \in Writes
    BY <1>3, <2>3, <2>4 DEF Writes
  <2> QED BY <2>3, <2>5 DEF p
<1>r. /\ dev' = IF out.status = "SUCCESS" THEN Fill(out.dev, w, "OLDER") ELSE out.dev
      /\ bug' = (out.status = "BUG")
      /\ backs' = [backs EXCEPT ![out.to] = @ + out.backs]
      /\ lost' = IF dev.wbuf < w.len \/ (out.status = "SUCCESS" /\ out.to = Ssd)
                 THEN lost ELSE lost + w.len
      /\ copies' = IF out.status \in {"DEFERRED", "BUG"} THEN copies ELSE copies \cup {ww}
      /\ written' = IF out.status = "SUCCESS" THEN written \cup Blocks(w) ELSE written
  BY DEF Run
<1> HIDE DEF out, z, ww
<1>5. /\ DevOK(dev') /\ dev'.zone = out.dev.zone /\ dev'.wbuf = out.dev.wbuf
      /\ \A l \in Lbas : dev'.data[l] = IF out.status = "SUCCESS" /\ l \in Blocks(w)
                                         THEN "OLDER" ELSE dev.data[l]
  <2>1. DevOK(out.dev) /\ out.dev.data = dev.data
    BY <1>1 DEF Written
  <2>2. CASE out.status = "SUCCESS"
    <3>1. dev' = Fill(out.dev, w, "OLDER")
      BY <1>r, <2>2
    <3>2. FilledAs(out.dev, Fill(out.dev, w, "OLDER"), w, "OLDER")
      BY <2>1, FillFacts, Zenon
    <3>3. FilledAs(out.dev, dev', w, "OLDER")
      BY <3>1, <3>2, Zenon
    <3> QED BY <2>1, <2>2, <3>3 DEF FilledAs
  <2>3. CASE out.status # "SUCCESS"
    BY <1>r, <2>1, <2>3
  <2> QED BY <2>2, <2>3
<1>6. BufferAccounted' /\ backs' \in [Buffers -> Nat] /\ lost' \in Nat
  <2>1. /\ out.to \in Buffers /\ out.backs \in Nat
        /\ out.to = Ssd => WriteUnit * out.backs = IF out.status = "SUCCESS" THEN w.len ELSE 0
    BY <1>1 DEF Written
  <2>2. backs' \in [Buffers -> Nat] /\ lost' \in Nat
    BY <1>0, <1>3, <1>r, <2>1
  <2>3. Ssd \in Buffers /\ backs[Ssd] \in Nat /\ WriteUnit * backs[Ssd] \in Nat
    BY <1>0, ConstTypes DEF Buffers
  <2>4. CASE out.to = Ssd
    <3>1. backs'[Ssd] = backs[Ssd] + out.backs
      BY <1>0, <1>r, <2>1, <2>4
    <3>2. WriteUnit * backs'[Ssd] = WriteUnit * backs[Ssd] + WriteUnit * out.backs
      BY <2>1, <2>3, <3>1, ConstTypes
    <3> QED BY <1>0, <1>2, <1>3, <1>5, <1>r, <2>1, <2>2, <2>3, <2>4, <3>2, ConstTypes DEF BufferAccounted
  <2>5. CASE out.to # Ssd
    <3>1. backs'[Ssd] = backs[Ssd]
      BY <1>0, <1>r, <2>1, <2>3, <2>5
    <3> QED BY <1>0, <1>2, <1>3, <1>5, <1>r, <2>2, <2>3, <2>5, <3>1, ConstTypes DEF BufferAccounted
  <2> QED BY <2>2, <2>4, <2>5
<1>7. bug' \in BOOLEAN /\ written' \subseteq Lbas /\ copies' \subseteq Writes
  BY <1>0, <1>3, <1>4, <1>r
<1>8. ASSUME NEW c \in copies', c.ok PROVE Blocks(c) \subseteq written'
  <2>1. CASE c \in copies
    BY <1>0, <1>8, <1>r, <2>1
  <2>2. CASE c \notin copies
    <3>1. c = ww
      BY <1>r, <2>2
    <3>2. ww.ok => out.status = "SUCCESS"
      BY DEF ww, Writes
    <3> QED BY <1>4, <1>8, <1>r, <3>1, <3>2
  <2> QED BY <2>1, <2>2
<1>9. ASSUME NEW l \in Lbas, \A c \in copies' : l \notin Blocks(c) PROVE Settled(l)'
  <2>1. Settled(l)
    BY <1>0, <1>9, <1>r
  <2>2. out.status = "SUCCESS" => l \notin Blocks(w)
    BY <1>4, <1>9, <1>r
  <2>3. dev'.data[l] = dev.data[l] /\ (l \in written' <=> l \in written)
    BY <1>5, <1>r, <2>2
  <2> QED BY <2>1, <2>3 DEF Settled
<1>10. ASSUME NEW y \in Zones PROVE MovesOn(dev, dev', y)
  <2>1. CASE y # z
    <3>1. dev'.zone[y] = dev.zone[y]
      BY <1>1, <1>5, <2>1 DEF Written, z
    <3>2. ASSUME NEW l \in Lbas, ZoneOf(l) = y PROVE dev'.data[l] = dev.data[l]
      <4>1. out.status = "SUCCESS" => OneZone(w)
        BY <1>1 DEF Written
      <4>2. out.status = "SUCCESS" => l \notin Blocks(w)
        BY <1>3, <2>1, <3>2, <4>1
      <4> QED BY <1>5, <4>2
    <3> QED BY <1>0, <3>1, <3>2, StaysPut
  <2>2. CASE y = z
    <3>1. /\ dev'.zone[y].wp >= dev.zone[y].wp
          /\ dev.zone[y].state = "FULL" => dev'.zone[y].state = "FULL"
          /\ out.status = "SUCCESS" => (~dev.zone[y].zrwav => w.slba >= dev.zone[y].wp)
      BY <1>1, <1>5, <2>2 DEF Written, z
    <3>2. dev.zone[y].wp \in Nat /\ ZoneOK(y, dev.zone[y])
      BY <1>0, DevFacts
    <3>3. ASSUME ~dev.zone[y].zrwav, NEW l \in Slba(y)..(dev.zone[y].wp - 1), dev'.data[l] = "OLDER"
          PROVE  dev.data[l] = "OLDER"
      <4>1. NZones * ZoneSize \in Nat
        BY ConstTypes
      <4>2. l \in Lbas /\ l < dev.zone[y].wp
        BY <3>2, <4>1, ZoneEnds, ConstTypes DEF ZoneOK, Lbas
      <4>3. ASSUME out.status = "SUCCESS" PROVE l \notin Blocks(w)
        <5>1. w.slba >= dev.zone[y].wp
          BY <3>1, <3>3, <4>3
        <5> QED BY <1>3, <3>2, <4>2, <5>1 DEF Blocks
      <4> QED BY <1>5, <3>3, <4>2, <4>3
    <3> QED BY <3>1, <3>3 DEF MovesOn
  <2> QED BY <2>1, <2>2
<1> QED BY <1>5, <1>6, <1>7, <1>8, <1>9, <1>10

LEMMA WriteKeeps ==
    ASSUME ZIInv, NEW slba \in Starts, NEW len \in Lens, Write(slba, len)
    PROVE  ZIInv' /\ \A z \in Zones : MovesOn(dev, dev', z)
<1> DEFINE w == [slba |-> slba, len |-> len, ok |-> FALSE]
<1>1. w \in Writes
  BY DEF Write, Writes
<1>2. Run(w, ZnsWrite(dev, w))
  BY DEF Write
<1>3. issued' \in 0..MaxWrites
  BY ConstTypes DEF Write, ZIInv
<1>4. deferred' \in Seq(Writes)
  BY <1>1 DEF Write, ZIInv
<1> HIDE DEF w
<1> QED BY <1>1, <1>2, <1>3, <1>4, RunKeeps DEF ZIInv

LEMMA RetryKeeps ==
    ASSUME ZIInv, Retry
    PROVE  ZIInv' /\ \A z \in Zones : MovesOn(dev, dev', z)
<1> DEFINE w == Head(deferred)
<1>1. w \in Writes /\ Tail(deferred) \in Seq(Writes)
  BY DEF Retry, ZIInv
<1>2. Run(w, ZnsWrite(dev, w)) /\ issued' = issued
  BY DEF Retry
<1>3. deferred' \in Seq(Writes)
  BY <1>1 DEF Retry, ZIInv
<1> HIDE DEF w
<1> QED BY <1>1, <1>2, <1>3, RunKeeps DEF ZIInv

(* The reset of a zone without outstanding writes takes its blocks out of  *)
(* the history; the other commands leave the data alone.                   *)
LEMMA MgmtSendKeeps ==
    ASSUME ZIInv, NEW lba \in Lbas, NEW a \in ManageActions, MgmtSend(lba, a)
    PROVE  ZIInv' /\ \A z \in Zones : MovesOn(dev, dev', z)
<1> DEFINE out == Manage(dev, lba, a)
           z   == ZoneOf(lba)
<1>0. /\ DevOK(dev) /\ BufferAccounted /\ written \subseteq Lbas /\ copies \subseteq Writes
      /\ \A c \in copies : c.ok => Blocks(c) \subseteq written
      /\ \A l \in Lbas : (\A c \in copies : l \notin Blocks(c)) => Settled(l)
  BY DEF ZIInv
<1>1. z \in Zones
  BY ZoneInRange
<1>2. /\ DevOK(out.dev) /\ out.dev.wbuf = dev.wbuf
      /\ \A y \in Zones \ {z} : out.dev.zone[y] = dev.zone[y]
      /\ ZoneEffect(dev, out.dev, z, a)
      /\ \A l \in Lbas : out.dev.data[l] = IF a = "RESET" /\ ZoneOf(l) = z THEN "ZERO" ELSE dev.data[l]
      /\ out.status # "SUCCESS" => a # "RESET"
  BY <1>0, ManageKeeps
<1>3. /\ dev' = out.dev /\ UNCHANGED <<deferred, copies, backs, issued, bug, lost>>
      /\ written' = {l \in written : ZoneOf(l) \notin (IF a = "RESET" /\ out.status = "SUCCESS" THEN {z} ELSE {})}
      /\ a = "RESET" => Quiet(ZoneBlocks(z))
  BY DEF MgmtSend, Wiped
<1> HIDE DEF out, z
<1>4. written' = {l \in written : ~(a = "RESET" /\ ZoneOf(l) = z)}
  BY <1>2, <1>3
<1>5. ASSUME NEW c \in copies', c.ok PROVE Blocks(c) \subseteq written'
  <2>1. c \in copies /\ Blocks(c) \subseteq written
    BY <1>0, <1>3, <1>5
  <2>2. ASSUME a = "RESET", NEW l \in Blocks(c) PROVE ZoneOf(l) # z
    <3>1. Blocks(c) \cap ZoneBlocks(z) = {}
      BY <1>3, <2>1, <2>2 DEF Quiet, Outstanding
    <3>2. l \in Lbas /\ l \notin ZoneBlocks(z)
      BY <1>0, <2>1, <3>1
    <3> QED BY <1>1, <3>2, ZoneEnds, ZoneInRange, ConstTypes DEF ZoneBlocks
  <2> QED BY <1>4, <2>1, <2>2
<1>6. ASSUME NEW l \in Lbas, \A c \in copies' : l \notin Blocks(c) PROVE Settled(l)'
  <2>1. Settled(l)
    BY <1>0, <1>3, <1>6
  <2> QED BY <1>2, <1>3, <1>4, <2>1 DEF Settled
<1>7. ASSUME NEW y \in Zones PROVE MovesOn(dev, dev', y)
  <2>1. CASE y # z
    BY <1>0, <1>2, <1>3, <2>1, StaysPut
  <2>2. CASE y = z /\ a = "RESET"
    <3>1. dev'.zone[y].state = "EMPTY" /\ dev'.zone[y].wp = Slba(y)
      BY <1>2, <1>3, <2>2 DEF ZoneEffect
    <3>2. ASSUME NEW l \in ZoneBlocks(y) PROVE dev'.data[l] = "ZERO"
      <4>1. NZones * ZoneSize \in Nat
        BY ConstTypes
      <4>2. l \in Lbas /\ Slba(y) <= l /\ l < Slba(y) + ZoneSize
        BY <4>1, ZoneEnds, ConstTypes DEF ZoneBlocks, Lbas
      <4>3. ZoneOf(l) = y
        BY <4>2, ZoneEnds
      <4> QED BY <1>2, <1>3, <2>2, <4>2, <4>3
    <3> QED BY <3>1, <3>2 DEF MovesOn
  <2>3. CASE y = z /\ a # "RESET"
    <3>1. /\ dev'.zone[y].wp >= dev.zone[y].wp
          /\ dev.zone[y].state = "FULL" => dev'.zone[y].state = "FULL"
      BY <1>2, <1>3, <2>3 DEF ZoneEffect
    <3>2. \A l \in Lbas : dev'.data[l] = dev.data[l]
      BY <1>2, <1>3, <2>3
    <3>3. dev.zone[y].wp \in Nat /\ ZoneOK(y, dev.zone[y]) /\ NZones * ZoneSize \in Nat
      BY <1>0, DevFacts, ConstTypes
    <3>4. Slba(y)..(dev.zone[y].wp - 1) \subseteq Lbas
      BY <3>3, ZoneEnds, ConstTypes DEF ZoneOK, Lbas
    <3> QED BY <3>1, <3>2, <3>4 DEF MovesOn
  <2> QED BY <2>1, <2>2, <2>3
<1>8. BufferAccounted'
  BY <1>0, <1>2, <1>3 DEF BufferAccounted
<1> QED BY <1>0, <1>2, <1>3, <1>4, <1>5, <1>6, <1>7, <1>8 DEF ZIInv

LEMMA MgmtSendAllKeeps ==
    ASSUME ZIInv, NEW a \in ManageActions, MgmtSendAll(a)
    PROVE  ZIInv' /\ \A z \in Zones : MovesOn(dev, dev', z)
<1>0. /\ DevOK(dev) /\ BufferAccounted /\ written \subseteq Lbas /\ copies \subseteq Writes
      /\ \A c \in copies : c.ok => Blocks(c) \subseteq written
      /\ \A l \in Lbas : (\A c \in copies : l \notin Blocks(c)) => Settled(l)
  BY DEF ZIInv
<1>1. EffectUpTo(dev, dev', NZones, a)
  BY <1>0, ManageAllKeeps DEF MgmtSendAll
<1>2. /\ UNCHANGED <<deferred, copies, backs, issued, bug, lost>>
      /\ written' = {l \in written : ZoneOf(l) \notin (IF a = "RESET" THEN Zones ELSE {})}
      /\ a = "RESET" => Quiet(Lbas)
  BY DEF MgmtSendAll, Wiped
<1>3. \A y \in Zones : y < NZones
  BY ConstTypes DEF Zones
<1>4. /\ DevOK(dev') /\ dev'.wbuf = dev.wbuf
      /\ \A y \in Zones : ZoneEffect(dev, dev', y, a)
      /\ \A l \in Lbas : dev'.data[l] = IF a = "RESET" THEN "ZERO" ELSE dev.data[l]
  BY <1>1, <1>3, ZoneInRange DEF EffectUpTo
<1>5. written' = IF a = "RESET" THEN {} ELSE written
  BY <1>0, <1>2, ZoneInRange
<1>6. ASSUME NEW c \in copies', c.ok PROVE Blocks(c) \subseteq written'
  <2>1. c \in copies /\ Blocks(c) \subseteq written
    BY <1>0, <1>2, <1>6
  <2>2. a = "RESET" => Blocks(c) \cap Lbas = {}
    BY <1>2, <2>1 DEF Quiet, Outstanding
  <2> QED BY <1>0, <1>5, <2>1, <2>2
<1>7. ASSUME NEW l \in Lbas, \A c \in copies' : l \notin Blocks(c) PROVE Settled(l)'
  <2>1. Settled(l)
    BY <1>0, <1>2, <1>7
  <2> QED BY <1>4, <1>5, <2>1 DEF Settled
<1>8. ASSUME NEW y \in Zones PROVE MovesOn(dev, dev', y)
  <2>1. dev.zone[y].wp \in Nat /\ ZoneOK(y, dev.zone[y]) /\ NZones * ZoneSize \in Nat
    BY <1>0, DevFacts, ConstTypes
  <2>2. Slba(y)..(dev.zone[y].wp - 1) \subseteq Lbas /\ ZoneBlocks(y) \subseteq Lbas
    BY <2>1, ZoneEnds, ConstTypes DEF ZoneOK, Lbas, ZoneBlocks
  <2> QED BY <1>4, <2>2 DEF MovesOn, ZoneEffect
<1>9. BufferAccounted'
  BY <1>0, <1>2, <1>4 DEF BufferAccounted
<1> QED BY <1>0, <1>2, <1>4, <1>5, <1>6, <1>7, <1>8, <1>9 DEF ZIInv

LEMMA CopyKeeps ==
    ASSUME ZIInv, NEW w \in copies, Copy(w)
    PROVE  ZIInv' /\ \A z \in Zones : MovesOn(dev, dev', z)
<1> DEFINE kind == IF w.ok THEN "LAST" ELSE "REFUSED"
<1>0. /\ DevOK(dev) /\ BufferAccounted
      /\ \A c \in copies : c.ok => Blocks(c) \subseteq written
      /\ \A l \in Lbas : (\A c \in copies : l \notin Blocks(c)) => Settled(l)
  BY DEF ZIInv
<1>1. kind \in {"LAST", "REFUSED"} /\ (kind = "LAST" => w.ok)
  OBVIOUS
<1>2. /\ copies' = copies \ {w} /\ dev' = Fill(dev, w, kind)
      /\ UNCHANGED <<deferred, backs, issued, bug, lost, written>>
  BY DEF Copy
<1> HIDE DEF kind
<1>3. /\ DevOK(dev') /\ dev'.zone = dev.zone /\ dev'.wbuf = dev.wbuf
      /\ \A l \in Lbas : dev'.data[l] = IF l \in Blocks(w) THEN kind ELSE dev.data[l]
  <2>1. kind \in {"OLDER", "LAST", "REFUSED"}
    BY <1>1
  <2>2. FilledAs(dev, dev', w, kind)
    BY <1>0, <1>2, <2>1, FillFacts
  <2> QED BY <2>2 DEF FilledAs
<1>4. ASSUME NEW l \in Lbas, \A c \in copies' : l \notin Blocks(c) PROVE Settled(l)'
  <2>1. CASE l \in Blocks(w)
    <3>1. kind = "LAST" => l \in written
      BY <1>0, <1>1, <2>1
    <3> QED BY <1>1, <1>2, <1>3, <2>1, <3>1 DEF Settled
  <2>2. CASE l \notin Blocks(w)
    <3>1. Settled(l)
      BY <1>0, <1>2, <1>4, <2>2
    <3> QED BY <1>2, <1>3, <2>2, <3>1 DEF Settled
  <2> QED BY <2>1, <2>2
<1>5. ASSUME NEW y \in Zones PROVE MovesOn(dev, dev', y)
  BY <1>0, <1>1, <1>3, StaysPut
<1>6. BufferAccounted'
  BY <1>0, <1>2, <1>3 DEF BufferAccounted
<1> QED BY <1>0, <1>2, <1>3, <1>4, <1>5, <1>6 DEF ZIInv

LEMMA WritebackKeeps ==
    ASSUME ZIInv, NEW b \in DOMAIN backs, Writeback(b)
    PROVE  ZIInv' /\ \A z \in Zones : MovesOn(dev, dev', z)
<1>0. /\ DevOK(dev) /\ dev \in Devices /\ BufferAccounted /\ backs \in [Buffers -> Nat] /\ lost \in Nat
      /\ \A l \in Lbas : (\A c \in copies : l \notin Blocks(c)) => Settled(l)
  BY DEF ZIInv, DevOK
<1>1. b \in Buffers /\ backs[b] \in Nat /\ backs[b] > 0 /\ Ssd \in Buffers
  BY <1>0 DEF Writeback, Buffers
<1>2. /\ backs' = [backs EXCEPT ![b] = @ - 1] /\ UNCHANGED <<deferred, copies, issued, bug, lost, written>>
      /\ dev' = IF b = Ssd THEN [dev EXCEPT !.wbuf = @ + WriteUnit]
                           ELSE [dev EXCEPT !.zbuf[b] = @ + WriteUnit]
  BY DEF Writeback
<1>3. backs' \in [Buffers -> Nat]
  BY <1>0, <1>1, <1>2
<1>4. CASE b = Ssd
  <2> DEFINE v == dev.wbuf + WriteUnit
  <2>1. dev' = [dev EXCEPT !.wbuf = v] /\ v \in Nat /\ dev.wbuf \in Nat
    BY <1>0, <1>2, <1>4, ConstTypes DEF Devices
  <2> HIDE DEF v
  <2>2. /\ dev' \in Devices /\ dev'.zone = dev.zone /\ dev'.res = dev.res /\ dev'.wbuf = v
        /\ dev'.data = dev.data
    BY <1>0, <2>1 DEF Devices
  <2>3. DevOK(dev')
    BY <1>0, <2>2, SameZones
  <2>4. backs'[Ssd] = backs[Ssd] - 1
    BY <1>0, <1>1, <1>2, <1>4
  <2>5. WriteUnit * backs'[Ssd] = WriteUnit * backs[Ssd] - WriteUnit /\ WriteUnit * backs[Ssd] \in Nat
    BY <1>1, <1>4, <2>4, ConstTypes
  <2>6. BufferAccounted'
    BY <1>0, <1>2, <2>1, <2>2, <2>5, ConstTypes DEF BufferAccounted, v
  <2>7. \A z \in Zones : MovesOn(dev, dev', z)
    BY <1>0, <2>2, StaysPut
  <2>8. \A l \in Lbas : (\A c \in copies' : l \notin Blocks(c)) => Settled(l)'
    BY <1>0, <1>2, <2>2 DEF Settled
  <2> QED BY <1>2, <1>3, <2>3, <2>6, <2>7, <2>8 DEF ZIInv
<1>5. CASE b # Ssd
  <2> DEFINE v == dev.zbuf[b] + WriteUnit
  <2>1. b \in Zones
    BY <1>1, <1>5 DEF Buffers
  <2>2. dev' = [dev EXCEPT !.zbuf[b] = v] /\ v \in Nat
    BY <1>0, <1>2, <1>5, <2>1, ConstTypes DEF Devices
  <2> HIDE DEF v
  <2>3. DevOK(dev') /\ dev'.zone = dev.zone /\ dev'.wbuf = dev.wbuf /\ dev'.data = dev.data
    BY <1>0, <2>1, <2>2, ZbufChange
  <2>4. backs'[Ssd] = backs[Ssd]
    BY <1>0, <1>1, <1>2, <1>5
  <2>5. BufferAccounted'
    BY <1>0, <1>2, <2>3, <2>4 DEF BufferAccounted
  <2>6. \A z \in Zones : MovesOn(dev, dev', z)
    BY <1>0, <2>3, StaysPut
  <2>7. \A l \in Lbas : (\A c \in copies' : l \notin Blocks(c)) => Settled(l)'
    BY <1>0, <1>2, <2>3 DEF Settled
  <2> QED BY <1>2, <1>3, <2>3, <2>5, <2>6, <2>7 DEF ZIInv
<1> QED BY <1>4, <1>5

LEMMA InitSound == Init => ZIInv
<1> SUFFICES ASSUME Init PROVE ZIInv
  OBVIOUS
<1> USE ConstTypes
<1>1. ASSUME NEW z \in Zones
      PROVE  dev.zone[z].state = "EMPTY" /\ dev.zone[z].wp = Slba(z) /\ ~dev.zone[z].zrwav
  BY DEF Init
<1>2. dev \in Devices
  <2> DEFINE zs == [z \in Zones |-> [state |-> "EMPTY", wp |-> Slba(z), zrwav |-> FALSE]]
  <2>1. ASSUME NEW z \in Zones
        PROVE  [state |-> "EMPTY", wp |-> Slba(z), zrwav |-> FALSE] \in ZoneRecords
    <3>1. NZones * ZoneSize \in Nat
      OBVIOUS
    <3>2. Slba(z) \in 0..(NZones * ZoneSize)
      BY <3>1, ZoneEnds
    <3> QED BY <3>2 DEF ZoneRecords, ZoneStates
  <2>2. zs \in [Zones -> ZoneRecords]
    BY <2>1
  <2> HIDE DEF zs
  <2> QED BY <2>2 DEF Init, Devices, zs
<1>3. Counted(dev, Opened) = {} /\ Counted(dev, Active) = {} /\ Areas(dev) = {}
  BY <1>1 DEF Counted, Areas, Opened, Active
<1>4. ResOK(dev)
  <2>1. dev.res["OPEN"] = 0 /\ dev.res["ACTIVE"] = 0 /\ dev.res["ZRWA"] = 0
    BY DEF Init, Resources
  <2> QED BY <1>3, <2>1, FS_EmptySet DEF ResOK
<1>5. ASSUME NEW z \in Zones PROVE ZoneOK(z, dev.zone[z])
  <2>1. Slba(z) \in Nat /\ 0 % WriteUnit = 0
    BY ZoneEnds
  <2> QED BY <1>1, <2>1 DEF ZoneOK
<1>6. BufferAccounted /\ backs \in [Buffers -> Nat]
  <2>1. Ssd \in Buffers /\ WriteUnit * 0 = 0
    BY DEF Buffers
  <2>2. dev.wbuf = Initial /\ backs[Ssd] = 0 /\ lost = 0
    BY <2>1 DEF Init
  <2>3. BufferAccounted
    BY <2>1, <2>2 DEF BufferAccounted
  <2> QED BY <2>3 DEF Init
<1>7. \A l \in Lbas : Settled(l)
  BY DEF Init, Settled
<1>8. /\ lost \in Nat /\ issued \in 0..MaxWrites /\ bug \in BOOLEAN /\ written \subseteq Lbas
      /\ deferred \in Seq(Writes) /\ copies = {}
  <2>1. << >> \in Seq(Writes)
    OBVIOUS
  <2>2. lost = 0 /\ issued = 0 /\ bug = FALSE /\ written = {} /\ deferred = << >> /\ copies = {}
    BY DEF Init
  <2>3. bug \in BOOLEAN
    BY <2>2
  <2>4. 0 \in 0..MaxWrites
    OBVIOUS
  <2> QED BY <2>1, <2>2, <2>3, <2>4
<1> QED BY <1>2, <1>4, <1>5, <1>6, <1>7, <1>8 DEF ZIInv, DevOK

LEMMA NextKeeps ==
    ASSUME ZIInv, Next
    PROVE  ZIInv' /\ \A z \in Zones : MovesOn(dev, dev', z)
<1>1. ASSUME NEW lba \in Starts, NEW n \in Lens, Write(lba, n)
      PROVE  ZIInv' /\ \A z \in Zones : MovesOn(dev, dev', z)
  BY <1>1, WriteKeeps
<1>2. CASE Retry
  BY <1>2, RetryKeeps
<1>3. ASSUME NEW z \in Zones, NEW a \in ManageActions \ {"FLUSH"}, MgmtSend(Slba(z), a)
      PROVE  ZIInv' /\ \A y \in Zones : MovesOn(dev, dev', y)
  <2>1. Slba(z) \in Lbas
    BY ZoneEnds
  <2> QED BY <1>3, <2>1, MgmtSendKeeps
<1>4. ASSUME NEW lba \in Lbas, MgmtSend(lba, "FLUSH")
      PROVE  ZIInv' /\ \A z \in Zones : MovesOn(dev, dev', z)
  <2>1. "FLUSH" \in ManageActions
    BY DEF ManageActions
  <2> QED BY <1>4, <2>1, MgmtSendKeeps
<1>5. ASSUME NEW a \in ManageActions, MgmtSendAll(a)
      PROVE  ZIInv' /\ \A z \in Zones : MovesOn(dev, dev', z)
  BY <1>5, MgmtSendAllKeeps
<1>6. ASSUME NEW w \in copies, Copy(w)
      PROVE  ZIInv' /\ \A z \in Zones : MovesOn(dev, dev', z)
  BY <1>6, CopyKeeps
<1>7. ASSUME NEW b \in DOMAIN backs, Writeback(b)
      PROVE  ZIInv' /\ \A z \in Zones : MovesOn(dev, dev', z)
  BY <1>7, WritebackKeeps
<1> QED BY <1>1, <1>2, <1>3, <1>4, <1>5, <1>6, <1>7 DEF Next

-----------------------------------------------------------------------------
(* Theorems. *)

(* The inductive invariant holds throughout: every command, retry, copy    *)
(* and writeback of zns_ftl.c keeps it.                                    *)
THEOREM InvariantAlways == Spec => []ZIInv
<1>1. ZIInv /\ [Next]_vars => ZIInv'
  <2>1. ZIInv /\ Next => ZIInv'
    BY NextKeeps
  <2>2. ZIInv /\ UNCHANGED vars => ZIInv'
    BY DEF ZIInv, vars, BufferAccounted, Settled
  <2> QED BY <2>1, <2>2
<1> QED BY <1>1, InitSound, PTL DEF Spec

(* The resource counters equal what the zones hold, and every block of the *)
(* write buffer is free, on its way back or accounted as lost, whatever    *)
(* the number of zones, the sizes and the sequence of commands.            *)
THEOREM CountersAlwaysExact == Spec => []CountersExact
<1>1. ZIInv => CountersExact
  <2> SUFFICES ASSUME ZIInv PROVE CountersExact
    OBVIOUS
  <2>1. dev.wbuf \in Nat /\ backs[Ssd] \in Nat /\ WriteUnit * backs[Ssd] \in Nat
    <3>1. Ssd \in Buffers
      BY DEF Buffers
    <3> QED BY <3>1, ConstTypes DEF ZIInv, DevOK, Devices
  <2>2. dev.wbuf <= Initial /\ lost \in 0..Initial
    BY <2>1, ConstTypes DEF ZIInv, BufferAccounted
  <2>3. Outstanding \subseteq [slba : Starts, len : Lens, ok : BOOLEAN]
    <3>1. \A i \in DOMAIN deferred : deferred[i] \in Writes
      BY DEF ZIInv
    <3> QED BY <3>1 DEF Outstanding, ZIInv, Writes
  <2>4. TypeOK
    BY <2>2, <2>3 DEF TypeOK, ZIInv, DevOK
  <2>5. ResourcesExact
    <3>1. /\ ZonesIn(Opened) = Counted(dev, Opened) /\ ZonesIn(Active) = Counted(dev, Active)
          /\ {z \in ZonesIn(Active) : dev.zone[z].zrwav} = Areas(dev)
      BY DEF ZonesIn, Counted, Areas
    <3> QED BY <3>1 DEF ResourcesExact, ZIInv, DevOK, ResOK
  <2> QED BY <2>4, <2>5 DEF CountersExact, ZIInv
<1> QED BY <1>1, InvariantAlways, PTL

(* State, write pointer and data of every zone agree: the pointer is in    *)
(* its zone, a zone whose pointer is at the end is full, and a block       *)
(* without an outstanding write holds the last accepted data, zero, or the *)
(* data of a refused write.                                                *)
THEOREM ZonesAlwaysSound == Spec => []ZonesSound
<1>1. ZIInv => ZonesSound
  <2> SUFFICES ASSUME ZIInv PROVE ZonesSound
    OBVIOUS
  <2>1. PointerAgrees
    BY DEF PointerAgrees, ZIInv, DevOK, ZoneOK
  <2>2. ASSUME NEW l \in Lbas, Quiet({l})
        PROVE  dev.data[l] \in {IF l \in written THEN "LAST" ELSE "ZERO", "REFUSED"}
    <3>1. \A w \in copies : l \notin Blocks(w)
      BY <2>2 DEF Quiet, Outstanding
    <3> QED BY <3>1 DEF ZIInv, Settled
  <2> QED BY <2>1, <2>2 DEF ZonesSound, DataKept
<1> QED BY <1>1, InvariantAlways, PTL

(* A command that is refused has changed neither a zone nor a counter,     *)
(* although it acquires active, open and random-write resources one after  *)
(* the other; a deferred write may leave its zone open.                    *)
THEOREM RefusalsChangeNothing == Spec => []RefusalChangesNothing
<1>1. ZIInv => RefusalChangesNothing
  <2> SUFFICES ASSUME ZIInv PROVE RefusalChangesNothing
    OBVIOUS
  <2>1. DevOK(dev) /\ dev \in Devices
    BY DEF ZIInv, DevOK
  <2>2. ASSUME NEW lba \in Lbas, NEW a \in ManageActions, Manage(dev, lba, a).status # "SUCCESS"
        PROVE  Manage(dev, lba, a).dev.zone = dev.zone /\ Manage(dev, lba, a).dev.res = dev.res
    BY <2>1, <2>2, ManageKeeps
  <2>3. ASSUME NEW lba \in Starts, NEW n \in Lens,
               ZnsWrite(dev, [slba |-> lba, len |-> n, ok |-> FALSE]).status \notin {"SUCCESS", "DEFERRED"}
        PROVE  /\ ZnsWrite(dev, [slba |-> lba, len |-> n, ok |-> FALSE]).dev.zone = dev.zone
               /\ ZnsWrite(dev, [slba |-> lba, len |-> n, ok |-> FALSE]).dev.res = dev.res
    <3> DEFINE w == [slba |-> lba, len |-> n, ok |-> FALSE]
               e == [dev EXCEPT !.wbuf = @ - w.len]
    <3>1. e.zone = dev.zone /\ e.res = dev.res
      BY <2>1 DEF Devices
    <3>2. \/ ZnsWrite(dev, w) = Refuse(dev, "DEFERRED")
          \/ ZnsWrite(dev, w) = ZrwaWrite(e, w)
          \/ ZnsWrite(dev, w) = PlainWrite(e, w)
      BY DEF ZnsWrite
    <3>3. ZnsWrite(dev, w).status \notin {"SUCCESS", "DEFERRED"}
      BY <2>3
    <3> HIDE DEF w, e
    <3>4. \A d, s : Refuse(d, s).dev = d /\ Refuse(d, s).status = s
      BY DEF Refuse
    <3>5. \A d, k, b : Accept(d, k, b).status = "SUCCESS"
      BY DEF Accept
    <3>6. PlainWrite(e, w).dev = e \/ PlainWrite(e, w).status = "SUCCESS"
      BY <3>4, <3>5 DEF PlainWrite, Active
    <3>7. \A d : ZrwaFlush(d, w).status \in {"SUCCESS", "DEFERRED"}
      BY <3>4, <3>5 DEF ZrwaFlush
    <3>8. ZrwaWrite(e, w).dev = e \/ ZrwaWrite(e, w).status \in {"SUCCESS", "DEFERRED"}
      BY <3>4, <3>7 DEF ZrwaWrite
    <3> QED BY <3>1, <3>2, <3>3, <3>4, <3>6, <3>8 DEF w
  <2> QED BY <2>2, <2>3 DEF RefusalChangesNothing
<1> QED BY <1>1, InvariantAlways, PTL

(* Only a reset takes a zone back: no other command, retry, copy or        *)
(* writeback moves a write pointer backwards, reopens a full zone or       *)
(* accepts data below the pointer of a zone without a random write area.   *)
THEOREM ZonesAlwaysMoveOn == Spec => ZonesMoveOn
<1>1. ZIInv /\ [Next]_vars => [\A z \in Zones : MovesOn(dev, dev', z)]_vars
  BY NextKeeps
<1>2. Spec => [][\A z \in Zones : MovesOn(dev, dev', z)]_vars
  BY <1>1, InvariantAlways, PTL DEF Spec
<1> QED BY <1>2 DEF ZonesMoveOn, MovesOn

=============================================================================
