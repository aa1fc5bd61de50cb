------------------------- MODULE BeaconCapture_proofs -------------------------
(***************************************************************************)
(* Proofs about BeaconCapture, for any air (names, addresses, readings,    *)
(* stray frames) and any sizes of the table and of the capture.            *)
(***************************************************************************)
EXTENDS BeaconCapture, FiniteSetTheorems, TLAPS

-----------------------------------------------------------------------------
(* The operators of a step.                                                *)

\* A scan adds a finite number to the statistic of same-name packets.
LEMMA ScanCountIsNat ==
  ASSUME TypeOK, NEW f \in Beacons
  PROVE  Cardinality(SameNameOtherBssid(f)) \in Nat
<1>1. IsFiniteSet(Saved)
  BY FS_Interval, BoundsAssumption, cur_packet_count - 1 \in Int DEF TypeOK, Saved
<1>2. SameNameOtherBssid(f) \subseteq Saved
  BY DEF SameNameOtherBssid
<1>3. IsFiniteSet(SameNameOtherBssid(f))
  BY <1>1, <1>2, FS_Subset
<1> QED BY <1>3, FS_CardinalityType

\* While the table has room the current position is a slot of the array.
LEMMA RoomMeansSlot ==
  ASSUME TypeOK, ~ TableFull
  PROVE  /\ cur_packet_count \in Slots
         /\ cur_packet_count + 1 \in 0 .. MAX_PACKET_INFO_COUNT
         /\ packet_info_array[cur_packet_count] \in PacketInfo
BY BoundsAssumption DEF TypeOK, TableFull, Slots

\* A slot written at the current position leaves every counted record as it was.
LEMMA WriteSlotKeepsSaved ==
  ASSUME TypeOK, NEW rec, WriteSlot(rec)
  PROVE  \A i \in Saved : packet_info_array'[i] = packet_info_array[i]
BY BoundsAssumption DEF TypeOK, WriteSlot, Saved, Slots

\* While the table has room, what is written is what the slot then holds.
LEMMA WriteSlotWrites ==
  ASSUME TypeOK, ~ TableFull, NEW rec, WriteSlot(rec)
  PROVE  /\ packet_info_array'[cur_packet_count] = rec
         /\ rec \in PacketInfo => packet_info_array' \in [Slots -> PacketInfo]
BY RoomMeansSlot DEF TypeOK, WriteSlot

\* Counting a packet adds exactly the current position to the counted ones.
LEMMA CountPacketAddsSlot ==
  ASSUME TypeOK, cur_packet_count' = cur_packet_count + 1
  PROVE  /\ Saved' = Saved \union {cur_packet_count}
         /\ cur_packet_count \notin Saved
BY BoundsAssumption DEF TypeOK, Saved

-----------------------------------------------------------------------------
(***************************************************************************)
(* Type correctness.  The bound on packet_info_count, the counter          *)
(* generateJson reads, is not inductive alone: only cur_packet_count is    *)
(* tested before a write, so the two must be shown to move together.       *)
(***************************************************************************)
CountersAgree == packet_info_count = cur_packet_count

TypeInv == TypeOK /\ CountersAgree

LEMMA LeftOversType ==
  ASSUME packet_info_array \in [Slots -> PacketInfo]
  PROVE  LeftOvers \in [Slots -> [addr : Addrs \union {Empty},
                                 reading : (Readings \ {Absent}) \union {Empty}]]
BY DEF LeftOvers, PacketInfo

LEMMA TypeInvStep ==
  ASSUME TypeInv, [Next]_vars
  PROVE  TypeInv'
<1> USE DEF TypeInv, CountersAgree, history
<1>1. CASE StartCapture
  BY <1>1, BoundsAssumption, LeftOversType DEF StartCapture, ResetCounters, TypeOK
<1>2. CASE SetupFails
  BY <1>2 DEF SetupFails, TypeOK, counters
<1>3. ASSUME NEW f \in Beacons, SkipWhenFull(f) PROVE TypeInv'
  BY <1>3, BoundsAssumption DEF SkipWhenFull, Deliver, TypeOK, counters
<1>4. ASSUME NEW f \in Beacons, DiscardDuplicate(f) PROVE TypeInv'
  <2>1. Recognised(f) \in PacketInfo
    BY <1>4, RoomMeansSlot DEF DiscardDuplicate, Recognised, PacketInfo, Beacons
  <2>2. packet_info_array' \in [Slots -> PacketInfo]
    BY <1>4, <2>1, WriteSlotWrites DEF DiscardDuplicate
  <2>3. packets_same_ssid_diff_bssid' \in Nat
    BY <1>4, ScanCountIsNat DEF DiscardDuplicate, TypeOK
  <2> QED BY <1>4, <2>2, <2>3, BoundsAssumption DEF DiscardDuplicate, Deliver, TypeOK
<1>5. ASSUME NEW f \in Beacons, SaveBeacon(f) PROVE TypeInv'
  <2>1. Filled(f) \in PacketInfo
    BY <1>5, RoomMeansSlot DEF SaveBeacon, Filled, PacketInfo, Beacons
  <2>2. packet_info_array' \in [Slots -> PacketInfo]
    BY <1>5, <2>1, WriteSlotWrites DEF SaveBeacon
  <2>3. packets_same_ssid_diff_bssid' \in Nat
    BY <1>5, ScanCountIsNat DEF SaveBeacon, TypeOK
  <2>4. /\ cur_packet_count' \in 0 .. MAX_PACKET_INFO_COUNT
        /\ packet_info_count' = cur_packet_count'
    BY <1>5, RoomMeansSlot DEF SaveBeacon, CountPacket
  <2> QED BY <1>5, <2>2, <2>3, <2>4, BoundsAssumption DEF SaveBeacon, Deliver, TypeOK
<1>6. ASSUME NEW f \in Beacons, NameOverrun(f) PROVE TypeInv'
  BY <1>6, BoundsAssumption DEF NameOverrun, Deliver, TypeOK, counters
<1>7. ASSUME NEW f \in Beacons, HeaderRunsAway(f) PROVE TypeInv'
  <2>1. Filled(f) \in PacketInfo
    BY <1>7, RoomMeansSlot DEF HeaderRunsAway, Filled, PacketInfo, Beacons
  <2>2. packet_info_array' \in [Slots -> PacketInfo]
    BY <1>7, <2>1, WriteSlotWrites DEF HeaderRunsAway
  <2>3. packets_same_ssid_diff_bssid' \in Nat
    BY <1>7, ScanCountIsNat DEF HeaderRunsAway, TypeOK
  <2> QED BY <1>7, <2>2, <2>3, BoundsAssumption DEF HeaderRunsAway, Deliver, TypeOK
<1>8. ASSUME NEW t \in StrayTypes, StrayFrame(t) PROVE TypeInv'
  <2>1. CASE TableFull
    BY <1>8, <2>1, BoundsAssumption DEF StrayFrame, Deliver, TypeOK
  <2>2. CASE ~ TableFull
    <3> DEFINE rec == [packet_info_array[cur_packet_count] EXCEPT !.ethernet_type = t]
    <3>1. rec \in PacketInfo
      BY <2>2, RoomMeansSlot, AirAssumption DEF PacketInfo
    <3>2. packet_info_array' \in [Slots -> PacketInfo]
      BY <1>8, <2>2, <3>1, WriteSlotWrites DEF StrayFrame
    <3>3. /\ cur_packet_count' \in 0 .. MAX_PACKET_INFO_COUNT
          /\ packet_info_count' = cur_packet_count'
      BY <1>8, <2>2, RoomMeansSlot DEF StrayFrame, CountPacket, TypeOK
    <3> QED BY <1>8, <3>2, <3>3, BoundsAssumption DEF StrayFrame, Deliver, TypeOK
  <2> QED BY <2>1, <2>2
<1>9. CASE FinishCapture
  BY <1>9 DEF FinishCapture, TypeOK, counters
<1>10. CASE LoopFails
  BY <1>10 DEF LoopFails, TypeOK, counters
<1>11. CASE UNCHANGED vars
  BY <1>11 DEF vars, counters, TypeOK
<1> QED BY <1>1, <1>2, <1>3, <1>4, <1>5, <1>6, <1>7, <1>8, <1>9, <1>10, <1>11 DEF Next, Callback

LEMMA TypeInvAlways == Spec => []TypeInv
<1>1. ASSUME Init PROVE TypeInv
  <2>1. packet_info_array \in [Slots -> PacketInfo]
    BY <1>1 DEF Init, PacketInfo, ZeroedSlot
  <2> QED BY <1>1, <2>1, BoundsAssumption, LeftOversType
          DEF Init, TypeInv, CountersAgree, TypeOK
<1> QED BY <1>1, TypeInvStep, PTL DEF Spec

\* No callback writes outside the array or counts past it, and the records stay
\* well formed, whatever frames arrive in whatever order.
THEOREM TypeCorrect == Spec => []TypeOK
BY TypeInvAlways, PTL DEF TypeInv

-----------------------------------------------------------------------------
(* The table of networks.                                                  *)

\* A counted record is never written again while its capture runs.
THEOREM CountedRecordsStay == Spec => FirstFrameWins
<1> DEFINE Stays == pc = "looping" =>
                      /\ cur_packet_count' >= cur_packet_count
                      /\ \A i \in Saved : packet_info_array'[i] = packet_info_array[i]
<1>1. ASSUME TypeOK, [Next]_vars PROVE Stays
  <2> SUFFICES ASSUME pc = "looping"
               PROVE  /\ cur_packet_count' >= cur_packet_count
                      /\ \A i \in Saved : packet_info_array'[i] = packet_info_array[i]
    OBVIOUS
  <2> USE <1>1
  <2>1. cur_packet_count \in Nat
    BY BoundsAssumption DEF TypeOK
  <2>2. ASSUME NEW f \in Beacons, DiscardDuplicate(f) PROVE Stays
    BY <2>1, <2>2, WriteSlotKeepsSaved DEF DiscardDuplicate
  <2>3. ASSUME NEW f \in Beacons, SaveBeacon(f) PROVE Stays
    BY <2>1, <2>3, WriteSlotKeepsSaved DEF SaveBeacon, CountPacket
  <2>4. ASSUME NEW t \in StrayTypes, StrayFrame(t) PROVE Stays
    BY <2>1, <2>4, WriteSlotKeepsSaved DEF StrayFrame, CountPacket
  <2>5. ASSUME NEW f \in Beacons, HeaderRunsAway(f) PROVE Stays
    BY <2>1, <2>5, WriteSlotKeepsSaved DEF HeaderRunsAway
  <2>6. ASSUME UNCHANGED <<packet_info_array, counters>> PROVE Stays
    BY <2>1, <2>6 DEF counters
  <2> QED BY <2>2, <2>3, <2>4, <2>5, <2>6
          DEF Next, Callback, StartCapture, SetupFails, SkipWhenFull, NameOverrun,
              FinishCapture, LoopFails, vars
<1>2. TypeOK /\ [Next]_vars => [Stays]_vars
  BY <1>1
<1> QED BY <1>2, TypeCorrect, PTL DEF Spec, FirstFrameWins

(***************************************************************************)
(* What a step can do to the table, as the invariants below see it: begin  *)
(* an empty one, leave the counted records alone, or count one record.     *)
(***************************************************************************)
Emptied == cur_packet_count' = 0 /\ heard' = {}

Untouched ==
  /\ cur_packet_count' = cur_packet_count
  /\ \A i \in Saved : packet_info_array'[i] = packet_info_array[i]

Counted(rec) ==
  /\ cur_packet_count' = cur_packet_count + 1
  /\ Saved' = Saved \union {cur_packet_count}
  /\ cur_packet_count \notin Saved
  /\ \A i \in Saved : packet_info_array'[i] = packet_info_array[i]
  /\ packet_info_array'[cur_packet_count] = rec

\* What a beacon does to the table: nothing when the table is full or the network
\* known, else its record is counted.
LEMMA BeaconEffect ==
  ASSUME TypeOK, NEW f \in Beacons,
         SkipWhenFull(f) \/ DiscardDuplicate(f) \/ SaveBeacon(f)
  PROVE  /\ heard' = heard \union {f}
         /\ \/ Untouched /\ (TableFull \/ Known(f))
            \/ Counted(Filled(f)) /\ ~ Known(f)
<1>1. CASE SkipWhenFull(f)
  BY <1>1 DEF SkipWhenFull, Untouched, counters
<1>2. CASE DiscardDuplicate(f)
  BY <1>2, WriteSlotKeepsSaved DEF DiscardDuplicate, Untouched
<1>3. CASE SaveBeacon(f)
  BY <1>3, WriteSlotKeepsSaved, WriteSlotWrites, CountPacketAddsSlot
     DEF SaveBeacon, CountPacket, Counted
<1> QED BY <1>1, <1>2, <1>3

\* A frame that ends the process leaves the counted records alone.
LEMMA LastFrameEffect ==
  ASSUME TypeOK, NEW f \in Beacons, NameOverrun(f) \/ HeaderRunsAway(f)
  PROVE  heard' = heard /\ Untouched
BY WriteSlotKeepsSaved DEF NameOverrun, HeaderRunsAway, Untouched, counters, history

\* A stray frame counts at most one record, and none that reads as a beacon.
LEMMA StrayEffect ==
  ASSUME TypeOK, NEW t \in StrayTypes, StrayFrame(t)
  PROVE  /\ heard' = heard
         /\ pc' = pc
         /\ \/ Untouched
            \/ \E rec : Counted(rec) /\ rec.ethernet_type # "beacon"
<1>1. CASE TableFull
  BY <1>1 DEF StrayFrame, Untouched, history
<1>2. CASE ~ TableFull /\ t = "zero"
  BY <1>2, WriteSlotKeepsSaved DEF StrayFrame, Untouched, history
<1>3. CASE ~ TableFull /\ t = "other"
  <2> DEFINE rec == [packet_info_array[cur_packet_count] EXCEPT !.ethernet_type = t]
  <2>1. rec.ethernet_type # "beacon"
    BY <1>3, RoomMeansSlot DEF PacketInfo
  <2>2. WriteSlot(rec) /\ CountPacket
    BY <1>3 DEF StrayFrame
  <2>3. Counted(rec)
    BY <1>3, <2>2, WriteSlotKeepsSaved, WriteSlotWrites, CountPacketAddsSlot
       DEF CountPacket, Counted
  <2> QED BY <1>3, <2>1, <2>3 DEF StrayFrame, history
<1> QED BY <1>1, <1>2, <1>3, AirAssumption

\* The remaining steps either start an empty table or leave everything alone.
LEMMA OtherEffect ==
  ASSUME \/ StartCapture \/ SetupFails \/ FinishCapture \/ LoopFails \/ UNCHANGED vars
  PROVE  \/ Emptied
         \/ UNCHANGED <<packet_info_array, counters, heard>>
BY DEF StartCapture, ResetCounters, SetupFails, FinishCapture, LoopFails, vars, history, Emptied

-----------------------------------------------------------------------------
\* No network is counted twice, unless its name has 15 characters or more: the
\* scan of pkt_with_ssid_bssid_exists sees every record counted before.
THEOREM NetworksDistinct == Spec => []DistinctBeacons
<1> USE DEF DistinctBeacons
<1>1. Init => DistinctBeacons
  BY DEF Init, Saved
<1>2. ASSUME TypeOK, DistinctBeacons, [Next]_vars PROVE DistinctBeacons'
  <2> USE <1>2
  <2>0. cur_packet_count \in Nat
    BY BoundsAssumption DEF TypeOK
  <2>1. ASSUME Untouched PROVE DistinctBeacons'
    BY <2>0, <2>1 DEF Untouched, Saved
  <2>2. ASSUME NEW rec, Counted(rec),
               rec.ethernet_type = "beacon" /\ rec.ssid \notin LongSsids =>
                 \A i \in Saved : LET old == packet_info_array[i] IN
                    <<old.ssid, old.bssid>> # <<rec.ssid, rec.bssid>>
        PROVE  DistinctBeacons'
    BY <2>0, <2>2 DEF Counted, Saved
  <2>3. ASSUME NEW f \in Beacons,
               SkipWhenFull(f) \/ DiscardDuplicate(f) \/ SaveBeacon(f)
        PROVE  DistinctBeacons'
    <3>1. CASE Untouched
      BY <2>1, <3>1
    <3>2. CASE Counted(Filled(f)) /\ ~ Known(f)
      BY <2>2, <3>2 DEF Filled, Known, SameNetwork, SameName
    <3> QED BY <2>3, <3>1, <3>2, BeaconEffect
  <2>4. ASSUME NEW t \in StrayTypes, StrayFrame(t) PROVE DistinctBeacons'
    BY <2>1, <2>2, <2>4, StrayEffect
  <2>5. ASSUME NEW f \in Beacons, NameOverrun(f) \/ HeaderRunsAway(f) PROVE DistinctBeacons'
    BY <2>1, <2>5, LastFrameEffect
  <2>6. CASE \/ StartCapture \/ SetupFails \/ FinishCapture \/ LoopFails \/ UNCHANGED vars
    BY <2>0, <2>1, <2>6, OtherEffect DEF Emptied, Untouched, Saved, counters
  <2> QED BY <2>3, <2>4, <2>5, <2>6 DEF Next, Callback
<1>3. TypeOK /\ DistinctBeacons /\ [Next]_vars => DistinctBeacons'
  BY <1>2
<1> QED BY <1>1, <1>3, TypeCorrect, PTL DEF Spec

\* Every network heard is in the table or the table is full: neither the early
\* returns of the callback nor a later write lose one.
THEOREM NetworksKept == Spec => []NoNetworkMissed
<1> USE DEF NoNetworkMissed
<1>1. Init => NoNetworkMissed
  BY DEF Init
<1>2. ASSUME TypeOK, NoNetworkMissed, [Next]_vars PROVE NoNetworkMissed'
  <2> USE <1>2
  <2>0. cur_packet_count \in 0 .. MAX_PACKET_INFO_COUNT /\ MAX_PACKET_INFO_COUNT \in Nat
    BY BoundsAssumption DEF TypeOK
  <2>1. ASSUME NEW f \in Beacons,
               SkipWhenFull(f) \/ DiscardDuplicate(f) \/ SaveBeacon(f)
        PROVE  NoNetworkMissed'
    <3>1. heard' = heard \union {f}
      BY <2>1, BeaconEffect
    <3>2. CASE Untouched /\ (TableFull \/ Known(f))
      BY <2>0, <3>1, <3>2 DEF Untouched, TableFull, Known, SameNetwork, SameName, Saved
    <3>3. CASE Counted(Filled(f)) /\ ~ Known(f)
      <4>1. ~ cur_packet_count = MAX_PACKET_INFO_COUNT
        BY <2>0, <2>1, <3>3
           DEF SkipWhenFull, DiscardDuplicate, SaveBeacon, TableFull, Counted,
               counters
      <4>2. /\ packet_info_array'[cur_packet_count].ssid = f.ssid
            /\ packet_info_array'[cur_packet_count].bssid = f.bssid
        BY <3>3 DEF Counted, Filled
      <4> QED BY <3>1, <3>3, <4>1, <4>2 DEF Counted
    <3> QED BY <2>1, <3>2, <3>3, BeaconEffect
  <2>2. ASSUME NEW t \in StrayTypes, StrayFrame(t) PROVE NoNetworkMissed'
    <3>1. heard' = heard
      BY <2>2 DEF StrayFrame, history
    <3>2. CASE Untouched
      BY <3>1, <3>2 DEF Untouched, Saved
    <3>3. ASSUME NEW rec, Counted(rec) PROVE NoNetworkMissed'
      <4>1. ~ cur_packet_count = MAX_PACKET_INFO_COUNT
        BY <2>0, <2>2, <3>3 DEF StrayFrame, TableFull, Counted
      <4> QED BY <3>1, <3>3, <4>1 DEF Counted
    <3> QED BY <2>2, <3>2, <3>3, StrayEffect
  <2>3. ASSUME NEW f \in Beacons, NameOverrun(f) \/ HeaderRunsAway(f) PROVE NoNetworkMissed'
    BY <2>3, LastFrameEffect DEF Untouched, Saved
  <2>4. CASE \/ StartCapture \/ SetupFails \/ FinishCapture \/ LoopFails \/ UNCHANGED vars
    BY <2>4, OtherEffect DEF Emptied, Saved, counters
  <2> QED BY <2>1, <2>2, <2>3, <2>4 DEF Next, Callback
<1>3. TypeOK /\ NoNetworkMissed /\ [Next]_vars => NoNetworkMissed'
  BY <1>2
<1> QED BY <1>1, <1>3, TypeCorrect, PTL DEF Spec

\* A counted beacon record carries name and addresses of one frame of this
\* capture, and its readings where the frame has them.
THEOREM RecordsAreFrames == Spec => []SavedBeaconWasHeard
<1> USE DEF SavedBeaconWasHeard
<1>1. Init => SavedBeaconWasHeard
  BY DEF Init, Saved
<1>2. ASSUME TypeOK, SavedBeaconWasHeard, [Next]_vars PROVE SavedBeaconWasHeard'
  <2> USE <1>2
  <2>1. ASSUME NEW f \in Beacons,
               SkipWhenFull(f) \/ DiscardDuplicate(f) \/ SaveBeacon(f)
        PROVE  SavedBeaconWasHeard'
    <3>1. heard' = heard \union {f}
      BY <2>1, BeaconEffect
    <3>2. CASE Untouched
      BY <3>1, <3>2 DEF Untouched, Saved
    <3>3. CASE Counted(Filled(f))
      <4>1. LET rec == Filled(f)
            IN  /\ <<f.ssid, f.bssid, f.addr>> = <<rec.ssid, rec.bssid, rec.addr>>
                /\ f.reading \in {Absent, rec.reading}
        BY DEF Filled
      <4> QED BY <3>1, <3>3, <4>1 DEF Counted
    <3> QED BY <2>1, <3>2, <3>3, BeaconEffect
  <2>2. ASSUME NEW t \in StrayTypes, StrayFrame(t) PROVE SavedBeaconWasHeard'
    <3>1. CASE Untouched
      BY <2>2, <3>1, StrayEffect DEF Untouched, Saved
    <3>2. ASSUME NEW rec, Counted(rec), rec.ethernet_type # "beacon"
          PROVE  SavedBeaconWasHeard'
      BY <2>2, <3>2, StrayEffect DEF Counted
    <3> QED BY <2>2, <3>1, <3>2, StrayEffect
  <2>3. ASSUME NEW f \in Beacons, NameOverrun(f) \/ HeaderRunsAway(f) PROVE SavedBeaconWasHeard'
    BY <2>3, LastFrameEffect DEF Untouched, Saved
  <2>4. CASE \/ StartCapture \/ SetupFails \/ FinishCapture \/ LoopFails \/ UNCHANGED vars
    BY <2>4, OtherEffect DEF Emptied, Saved, counters
  <2> QED BY <2>1, <2>2, <2>3, <2>4 DEF Next, Callback
<1>3. TypeOK /\ SavedBeaconWasHeard /\ [Next]_vars => SavedBeaconWasHeard'
  BY <1>2
<1> QED BY <1>1, <1>3, TypeCorrect, PTL DEF Spec

(***************************************************************************)
(* What the slots keep.  LeftOversAreOlder is not inductive alone: the     *)
(* slots not counted yet must still hold what the capture found in them,   *)
(* although duplicates and frames of type 0 have gone through them.        *)
(***************************************************************************)
Kept(i) == /\ packet_info_array[i].addr = before[i].addr
           /\ packet_info_array[i].reading = before[i].reading

OpenSlotsKept == pc # "dead" => \A i \in Slots \ Saved : Kept(i)

LEMMA SavedGrows ==
  ASSUME cur_packet_count \in Nat,
         cur_packet_count' \in {cur_packet_count, cur_packet_count + 1}
  PROVE  Saved \subseteq Saved'
<1>1. CASE cur_packet_count' = cur_packet_count
  BY <1>1 DEF Saved
<1>2. CASE cur_packet_count' = cur_packet_count + 1
  BY <1>2 DEF Saved
<1> QED BY <1>1, <1>2

\* A slot written at the current position with its addresses and reading as they were.
LEMMA PassedThrough ==
  ASSUME TypeOK, OpenSlotsKept, ~ TableFull, pc = "looping", before' = before,
         NEW rec \in PacketInfo, WriteSlot(rec),
         rec.addr = packet_info_array[cur_packet_count].addr,
         rec.reading = packet_info_array[cur_packet_count].reading,
         cur_packet_count' \in {cur_packet_count, cur_packet_count + 1}
  PROVE  OpenSlotsKept'
<1>1. cur_packet_count \in Nat /\ cur_packet_count \in Slots /\ Slots' = Slots
  BY RoomMeansSlot, BoundsAssumption DEF TypeOK, Slots
<1>2. \A i \in Slots : i # cur_packet_count => packet_info_array'[i] = packet_info_array[i]
  BY DEF TypeOK, WriteSlot
<1>3. packet_info_array'[cur_packet_count] = rec
  BY WriteSlotWrites
<1>4. \A i \in Slots \ Saved' : i \in Slots \ Saved
  BY <1>1, SavedGrows
<1> QED BY <1>1, <1>2, <1>3, <1>4 DEF OpenSlotsKept, Kept

LEMMA OpenSlotsStep ==
  ASSUME TypeOK, OpenSlotsKept, [Next]_vars
  PROVE  OpenSlotsKept'
<1>0. cur_packet_count \in Nat /\ MAX_PACKET_INFO_COUNT \in Nat
  BY BoundsAssumption DEF TypeOK
<1>1. CASE StartCapture
  BY <1>1 DEF StartCapture, LeftOvers, OpenSlotsKept, Kept
<1>2. ASSUME NEW f \in Beacons, DiscardDuplicate(f) PROVE OpenSlotsKept'
  <2>1. /\ Recognised(f) \in PacketInfo
        /\ Recognised(f).addr = packet_info_array[cur_packet_count].addr
        /\ Recognised(f).reading = packet_info_array[cur_packet_count].reading
    BY <1>2, RoomMeansSlot DEF DiscardDuplicate, Recognised, PacketInfo, Beacons
  <2> QED BY <1>2, <2>1, PassedThrough DEF DiscardDuplicate, Deliver
<1>3. ASSUME NEW f \in Beacons, SaveBeacon(f) PROVE OpenSlotsKept'
  <2>1. \A i \in Slots \ Saved' : i \in Slots \ Saved /\ i # cur_packet_count
    BY <1>0, <1>3 DEF SaveBeacon, CountPacket, Saved, Slots
  <2>2. \A i \in Slots : i # cur_packet_count => packet_info_array'[i] = packet_info_array[i]
    BY <1>3 DEF SaveBeacon, TypeOK, WriteSlot
  <2> QED BY <1>3, <2>1, <2>2 DEF SaveBeacon, Deliver, OpenSlotsKept, Kept
<1>4. ASSUME NEW t \in StrayTypes, StrayFrame(t) PROVE OpenSlotsKept'
  <2>1. CASE TableFull
    BY <1>4, <2>1 DEF StrayFrame, history, OpenSlotsKept, Kept, Saved
  <2>2. CASE ~ TableFull
    <3> DEFINE rec == [packet_info_array[cur_packet_count] EXCEPT !.ethernet_type = t]
    <3>1. /\ rec \in PacketInfo
          /\ rec.addr = packet_info_array[cur_packet_count].addr
          /\ rec.reading = packet_info_array[cur_packet_count].reading
      BY <2>2, RoomMeansSlot, AirAssumption DEF PacketInfo
    <3>2. /\ WriteSlot(rec) /\ pc = "looping" /\ before' = before
          /\ cur_packet_count' \in {cur_packet_count, cur_packet_count + 1}
      BY <1>4, <2>2 DEF StrayFrame, Deliver, CountPacket, history
    <3> QED BY <2>2, <3>1, <3>2, PassedThrough
  <2> QED BY <2>1, <2>2
<1>5. ASSUME NEW f \in Beacons, NameOverrun(f) \/ HeaderRunsAway(f) PROVE OpenSlotsKept'
  BY <1>5 DEF NameOverrun, HeaderRunsAway, OpenSlotsKept
<1>6. ASSUME UNCHANGED <<packet_info_array, counters, before>>, pc # "dead" PROVE OpenSlotsKept'
  BY <1>6 DEF OpenSlotsKept, Kept, Saved, counters
<1>7. ASSUME NEW f \in Beacons, SkipWhenFull(f) PROVE OpenSlotsKept'
  BY <1>6, <1>7 DEF SkipWhenFull, Deliver
<1>8. CASE SetupFails \/ FinishCapture \/ LoopFails
  BY <1>6, <1>8 DEF SetupFails, FinishCapture, LoopFails, history
<1>9. CASE UNCHANGED vars
  BY <1>9 DEF vars, history, counters, OpenSlotsKept, Kept, Saved
<1> QED BY <1>1, <1>2, <1>3, <1>4, <1>5, <1>7, <1>8, <1>9 DEF Next, Callback

\* What a counted record does not have from its own frame is older than the capture,
\* whatever went through the slot before: the callback never leaves a part of one frame
\* of a capture in the record of another.
THEOREM OlderLeftOvers == Spec => []LeftOversAreOlder
<1> USE DEF LeftOversAreOlder
<1>1. Init => LeftOversAreOlder /\ OpenSlotsKept
  BY DEF Init, Saved, Slots, LeftOvers, OpenSlotsKept, Kept
<1>2. ASSUME TypeOK, OpenSlotsKept, LeftOversAreOlder, [Next]_vars PROVE LeftOversAreOlder'
  <2> USE <1>2
  <2>1. ASSUME NEW f \in Beacons,
               SkipWhenFull(f) \/ DiscardDuplicate(f) \/ SaveBeacon(f)
        PROVE  LeftOversAreOlder'
    <3>1. heard' = heard \union {f} /\ before' = before /\ pc = "looping"
      BY <2>1, BeaconEffect DEF SkipWhenFull, DiscardDuplicate, SaveBeacon, Deliver
    <3>2. CASE Untouched
      BY <3>1, <3>2 DEF Untouched, Saved
    <3>3. CASE Counted(Filled(f))
      <4>1. cur_packet_count \in Slots \ Saved
        BY <2>1, <3>3, RoomMeansSlot
           DEF SkipWhenFull, DiscardDuplicate, SaveBeacon, Counted, counters, TypeOK
      <4>2. LET rec == Filled(f)
            IN  /\ <<f.ssid, f.bssid, f.addr>> = <<rec.ssid, rec.bssid, rec.addr>>
                /\ rec.ethernet_type = "beacon"
                /\ rec.reading = IF f.reading = Absent THEN before[cur_packet_count].reading
                                                       ELSE f.reading
        BY <3>1, <4>1 DEF Filled, OpenSlotsKept, Kept
      <4> QED BY <3>1, <3>3, <4>2 DEF Counted
    <3> QED BY <2>1, <3>2, <3>3, BeaconEffect
  <2>2. ASSUME NEW t \in StrayTypes, StrayFrame(t) PROVE LeftOversAreOlder'
    <3>1. heard' = heard /\ before' = before /\ pc = "looping"
      BY <2>2 DEF StrayFrame, Deliver, history
    <3>2. CASE Untouched
      BY <3>1, <3>2 DEF Untouched, Saved
    <3>3. ASSUME NEW rec, Counted(rec), rec.ethernet_type # "beacon"
          PROVE  LeftOversAreOlder'
      <4>1. cur_packet_count \in Slots \ Saved /\ ~ TableFull
        BY <2>2, <3>3, RoomMeansSlot DEF StrayFrame, Counted, TypeOK
      <4>2. rec = [packet_info_array[cur_packet_count] EXCEPT !.ethernet_type = t]
        BY <2>2, <3>3, <4>1, WriteSlotWrites DEF StrayFrame, Counted
      <4>3. rec.addr = before[cur_packet_count].addr /\ rec.reading = before[cur_packet_count].reading
        BY <3>1, <4>1, <4>2, RoomMeansSlot DEF OpenSlotsKept, Kept, PacketInfo
      <4> QED BY <3>1, <3>3, <4>3 DEF Counted
    <3> QED BY <2>2, <3>2, <3>3, StrayEffect
  <2>3. ASSUME NEW f \in Beacons, NameOverrun(f) \/ HeaderRunsAway(f) PROVE LeftOversAreOlder'
    BY <2>3, LastFrameEffect DEF NameOverrun, HeaderRunsAway, history, Untouched, Saved
  <2>4. CASE StartCapture
    BY <2>4 DEF StartCapture, ResetCounters, Saved
  <2>5. CASE SetupFails \/ FinishCapture \/ LoopFails \/ UNCHANGED vars
    BY <2>5 DEF SetupFails, FinishCapture, LoopFails, vars, history, counters, Saved
  <2> QED BY <2>1, <2>2, <2>3, <2>4, <2>5 DEF Next, Callback
<1>3. /\ TypeOK /\ LeftOversAreOlder /\ OpenSlotsKept /\ [Next]_vars
      => LeftOversAreOlder' /\ OpenSlotsKept'
  BY <1>2, OpenSlotsStep
<1> QED BY <1>1, <1>3, TypeCorrect, PTL DEF Spec

-----------------------------------------------------------------------------
\* The counters explain the frames: the two counters agree, and every frame that
\* was not saved is a counted duplicate while there is room and no frame has type 0.
THEOREM FramesAccounted == Spec => []EveryFrameAccounted
<1> USE DEF EveryFrameAccounted
<1>1. Init => EveryFrameAccounted
  BY BoundsAssumption DEF Init
<1>2. ASSUME TypeOK, EveryFrameAccounted, [Next]_vars PROVE EveryFrameAccounted'
  <2> USE <1>2, BoundsAssumption DEF TypeOK
  <2>1. CASE StartCapture
    BY <2>1 DEF StartCapture, ResetCounters
  <2>2. ASSUME NEW f \in Beacons, SkipWhenFull(f) PROVE EveryFrameAccounted'
    BY <2>2 DEF SkipWhenFull, Deliver, TableFull, counters
  <2>3. ASSUME NEW f \in Beacons, DiscardDuplicate(f) PROVE EveryFrameAccounted'
    BY <2>3 DEF DiscardDuplicate, Deliver
  <2>4. ASSUME NEW f \in Beacons, SaveBeacon(f) PROVE EveryFrameAccounted'
    BY <2>4 DEF SaveBeacon, Deliver, CountPacket, TableFull
  <2>5. ASSUME NEW f \in Beacons, NameOverrun(f) PROVE EveryFrameAccounted'
    BY <2>5 DEF NameOverrun, Deliver, counters
  <2>6. ASSUME NEW f \in Beacons, HeaderRunsAway(f) PROVE EveryFrameAccounted'
    BY <2>6 DEF HeaderRunsAway, Deliver
  <2>7. ASSUME NEW t \in StrayTypes, StrayFrame(t) PROVE EveryFrameAccounted'
    BY <2>7 DEF StrayFrame, Deliver, CountPacket, TableFull
  <2>8. CASE SetupFails \/ FinishCapture \/ LoopFails \/ UNCHANGED vars
    BY <2>8 DEF SetupFails, FinishCapture, LoopFails, vars, counters
  <2> QED BY <2>1, <2>2, <2>3, <2>4, <2>5, <2>6, <2>7, <2>8 DEF Next, Callback
<1>3. TypeOK /\ EveryFrameAccounted /\ [Next]_vars => EveryFrameAccounted'
  BY <1>2
<1> QED BY <1>1, <1>3, TypeCorrect, PTL DEF Spec

-----------------------------------------------------------------------------
(* The statistic of same names.                                            *)

\* What the scan adds is zero exactly if it meets no record of the name with another
\* BSSID before the network itself.
LEMMA ScanCountZero ==
  ASSUME TypeOK, NEW f \in Beacons
  PROVE  Cardinality(SameNameOtherBssid(f)) = 0 <=> SameNameOtherBssid(f) = {}
<1>1. IsFiniteSet(Saved)
  BY FS_Interval, BoundsAssumption, cur_packet_count - 1 \in Int DEF TypeOK, Saved
<1>2. IsFiniteSet(SameNameOtherBssid(f))
  BY <1>1, FS_Subset DEF SameNameOtherBssid
<1> QED BY <1>2, FS_EmptySet

SameNameAs(i, j) == /\ packet_info_array[i].ssid = packet_info_array[j].ssid
                    /\ packet_info_array[i].ssid \notin LongSsids
                    /\ packet_info_array[i].bssid # packet_info_array[j].bssid

NoticedPair == \E i, j \in Saved : SameNameAs(i, j)

NoPair == \A j \in Saved : packet_info_array[j].ethernet_type = "beacon" =>
            \A i \in 0 .. j - 1 : ~ SameNameAs(i, j)

\* A pair that is there stays there, and a record that is not a beacon makes none.
LEMMA PairsKept ==
  ASSUME TypeOK, Untouched \/ (\E rec : Counted(rec) /\ rec.ethernet_type # "beacon")
  PROVE  (NoticedPair => NoticedPair') /\ (NoPair => NoPair')
<1>0. cur_packet_count \in Nat
  BY BoundsAssumption DEF TypeOK
<1>1. CASE Untouched
  BY <1>0, <1>1 DEF Untouched, NoticedPair, NoPair, SameNameAs, Saved
<1>2. ASSUME NEW rec, Counted(rec), rec.ethernet_type # "beacon"
      PROVE  (NoticedPair => NoticedPair') /\ (NoPair => NoPair')
  <2>1. NoticedPair => NoticedPair'
    BY <1>2 DEF Counted, NoticedPair, SameNameAs
  <2>2. NoPair => NoPair'
    BY <1>0, <1>2 DEF Counted, NoPair, SameNameAs, Saved
  <2> QED BY <2>1, <2>2
<1> QED BY <1>1, <1>2

\* The statistic is not zero exactly when two records of the capture share a name with
\* different BSSIDs, although it is counted before the scan is over.
THEOREM SameNamesNoticed == Spec => []SameNameNoticed
<1> DEFINE stat == packets_same_ssid_diff_bssid
           Noticed == pc # "dead" => (stat > 0 => NoticedPair) /\ (stat = 0 => NoPair)
<1>0. Noticed <=> SameNameNoticed
  BY DEF SameNameNoticed, NoticedPair, NoPair, SameNameAs
<1>1. Init => Noticed
  BY DEF Init, NoPair, Saved
<1>2. ASSUME TypeOK, Noticed, [Next]_vars PROVE Noticed'
  <2> USE <1>2
  <2>0. cur_packet_count \in Nat /\ stat \in Nat
    BY BoundsAssumption DEF TypeOK
  <2>1. ASSUME stat' = stat, pc # "dead",
               Untouched \/ (\E rec : Counted(rec) /\ rec.ethernet_type # "beacon")
        PROVE  Noticed'
    BY <2>1, PairsKept
  <2>2. ASSUME NEW f \in Beacons, SkipWhenFull(f) PROVE Noticed'
    BY <2>1, <2>2 DEF SkipWhenFull, Deliver, counters, Untouched
  <2>3. ASSUME NEW f \in Beacons, DiscardDuplicate(f) PROVE Noticed'
    <3>1. Untouched /\ pc # "dead"
            /\ stat' = stat + Cardinality(SameNameOtherBssid(f))
      BY <2>3, WriteSlotKeepsSaved DEF DiscardDuplicate, Deliver, Untouched
    <3>2. CASE SameNameOtherBssid(f) = {}
      BY <2>0, <2>1, <3>1, <3>2, ScanCountZero
    <3>3. CASE SameNameOtherBssid(f) # {}
      <4>1. PICK i \in Saved : SameName(i, f) /\ packet_info_array[i].bssid # f.bssid
        BY <3>3 DEF SameNameOtherBssid
      <4>2. PICK k \in Saved : SameNetwork(k, f)
        BY <2>3 DEF DiscardDuplicate, Known
      <4>3. NoticedPair
        BY <4>1, <4>2 DEF NoticedPair, SameNameAs, SameName, SameNetwork
      <4>4. stat' # 0
        BY <2>0, <3>1, <3>3, ScanCountZero, ScanCountIsNat
      <4> QED BY <3>1, <4>3, <4>4, PairsKept
    <3> QED BY <3>2, <3>3
  <2>4. ASSUME NEW f \in Beacons, SaveBeacon(f) PROVE Noticed'
    <3>1. Counted(Filled(f)) /\ ~ Known(f) /\ pc # "dead"
            /\ stat' = stat + Cardinality(SameNameOtherBssid(f))
      BY <2>4, WriteSlotKeepsSaved, WriteSlotWrites, CountPacketAddsSlot
         DEF SaveBeacon, Deliver, CountPacket, Counted
    <3>2. /\ packet_info_array'[cur_packet_count].ssid = f.ssid
          /\ packet_info_array'[cur_packet_count].bssid = f.bssid
      BY <3>1 DEF Counted, Filled
    <3>3. CASE SameNameOtherBssid(f) = {}
      <4>1. ASSUME NEW i \in Saved PROVE ~ SameName(i, f)
        <5>1. \A j \in 0 .. i - 1 : j \in Saved
          BY <2>0 DEF Saved
        <5>2. i \notin SameNameOtherBssid(f) /\ \A j \in Saved : ~ SameNetwork(j, f)
          BY <3>1, <3>3 DEF Known
        <5> QED BY <5>1, <5>2 DEF SameNameOtherBssid, SameNetwork
      <4>2. stat' = stat
        BY <2>0, <3>1, <3>3, ScanCountZero
      <4>3. NoticedPair => NoticedPair'
        BY <3>1 DEF Counted, NoticedPair, SameNameAs
      <4>4. ASSUME NoPair, NEW j \in Saved', NEW i \in 0 .. j - 1,
                   packet_info_array'[j].ethernet_type = "beacon"
            PROVE  ~ SameNameAs(i, j)'
        <5>1. CASE j = cur_packet_count
          <6>1. i \in Saved
            BY <2>0, <5>1 DEF Saved
          <6> QED BY <3>1, <3>2, <4>1, <5>1, <6>1 DEF Counted, SameNameAs, SameName
        <5>2. CASE j # cur_packet_count
          <6>1. j \in Saved /\ i \in Saved
            BY <2>0, <3>1, <5>2 DEF Counted, Saved
          <6> QED BY <3>1, <4>4, <6>1 DEF Counted, NoPair, SameNameAs
        <5> QED BY <5>1, <5>2
      <4> QED BY <3>1, <4>2, <4>3, <4>4 DEF NoPair
    <3>4. CASE SameNameOtherBssid(f) # {}
      <4>1. PICK i \in Saved : SameName(i, f) /\ packet_info_array[i].bssid # f.bssid
        BY <3>4 DEF SameNameOtherBssid
      <4>2. NoticedPair'
        BY <3>1, <3>2, <4>1 DEF Counted, NoticedPair, SameNameAs, SameName
      <4>3. stat' # 0
        BY <2>0, <3>1, <3>4, ScanCountZero, ScanCountIsNat
      <4> QED BY <4>2, <4>3
    <3> QED BY <3>3, <3>4
  <2>5. ASSUME NEW t \in StrayTypes, StrayFrame(t) PROVE Noticed'
    BY <2>1, <2>5, StrayEffect DEF StrayFrame, Deliver
  <2>6. ASSUME NEW f \in Beacons, NameOverrun(f) \/ HeaderRunsAway(f) PROVE Noticed'
    BY <2>6 DEF NameOverrun, HeaderRunsAway
  <2>7. CASE StartCapture
    BY <2>7 DEF StartCapture, ResetCounters, NoPair, Saved
  <2>8. CASE SetupFails \/ FinishCapture \/ LoopFails \/ UNCHANGED vars
    BY <2>8 DEF SetupFails, FinishCapture, LoopFails, vars, counters, NoticedPair, NoPair,
                SameNameAs, Saved
  <2> QED BY <2>2, <2>3, <2>4, <2>5, <2>6, <2>7, <2>8 DEF Next, Callback
<1>3. TypeOK /\ Noticed /\ [Next]_vars => Noticed'
  BY <1>2
<1>4. Spec => []Noticed
  BY <1>1, <1>3, TypeCorrect, PTL DEF Spec
<1> QED BY <1>0, <1>4, PTL

-----------------------------------------------------------------------------
(***************************************************************************)
(* The capture implements DistinctNetworks.  Its capacity is a number of   *)
(* networks and that of the code a number of slots: they agree because     *)
(* every counted slot is another network.                                  *)
(***************************************************************************)
Pair(i) == <<packet_info_array[i].ssid, packet_info_array[i].bssid>>

Reported == {Pair(i) : i \in Saved}

Present == {<<f.ssid, f.bssid>> : f \in heard}

SlotPerNetwork == IsFiniteSet(Reported) /\ Cardinality(Reported) = cur_packet_count

LEMMA ReportedStays == ASSUME Untouched PROVE Reported' = Reported
BY DEF Untouched, Reported, Pair, Saved

LEMMA ReportedGrows ==
  ASSUME TypeOK, LongSsids = {}, SlotPerNetwork, NEW f \in Beacons, Counted(Filled(f)), ~ Known(f)
  PROVE  Reported' = Reported \union {<<f.ssid, f.bssid>>} /\ SlotPerNetwork'
<1> DEFINE n == <<f.ssid, f.bssid>>
<1>0. cur_packet_count \in Nat
  BY BoundsAssumption DEF TypeOK
<1>1. n \notin Reported
  BY DEF Reported, Pair, Known, SameNetwork, SameName
<1>2. /\ packet_info_array'[cur_packet_count].ssid = f.ssid
      /\ packet_info_array'[cur_packet_count].bssid = f.bssid
  BY DEF Counted, Filled
<1>3. Reported' = Reported \union {n}
  <2>1. Reported' = {<<packet_info_array'[i].ssid, packet_info_array'[i].bssid>> : i \in Saved'}
    BY DEF Reported, Pair
  <2>2. Reported' = {<<packet_info_array'[i].ssid, packet_info_array'[i].bssid>> : i \in Saved}
                      \union {n}
    BY <1>2, <2>1 DEF Counted
  <2>3. {<<packet_info_array'[i].ssid, packet_info_array'[i].bssid>> : i \in Saved} = Reported
    BY DEF Counted, Reported, Pair
  <2> QED BY <2>2, <2>3
<1>4. IsFiniteSet(Reported') /\ Cardinality(Reported') = Cardinality(Reported) + 1
  BY <1>1, <1>3, FS_AddElement DEF SlotPerNetwork
<1> QED BY <1>0, <1>3, <1>4 DEF SlotPerNetwork, Counted

LEMMA ReportStep ==
  ASSUME TypeOK, LongSsids = {}, StrayTypes = {}, SlotPerNetwork, [Next]_vars
  PROVE  SlotPerNetwork' /\ [Report!Next]_<<pc = "looping", Present, Reported>>
<1>0. cur_packet_count \in 0 .. MAX_PACKET_INFO_COUNT /\ MAX_PACKET_INFO_COUNT \in Nat
  BY BoundsAssumption DEF TypeOK
<1>1. CASE StartCapture
  <2>1. Reported' = {} /\ Present' = {} /\ cur_packet_count' = 0
    BY <1>1 DEF StartCapture, ResetCounters, Reported, Present, Saved
  <2>2. Report!Begin
    BY <1>1, <2>1 DEF StartCapture, Report!Begin, Reported, Present, Pair
  <2> QED BY <2>1, <2>2, FS_EmptySet DEF SlotPerNetwork, Report!Next
<1>2. ASSUME NEW f \in Beacons, SkipWhenFull(f) \/ DiscardDuplicate(f) \/ SaveBeacon(f)
      PROVE  SlotPerNetwork' /\ Report!Next
  <2> DEFINE n == <<f.ssid, f.bssid>>
  <2>1. pc = "looping" /\ pc' = "looping" /\ n \in Ssids \X Bssids
    BY <1>2 DEF SkipWhenFull, DiscardDuplicate, SaveBeacon, Deliver, Beacons
  <2>2. Present' = Present \union {n}
    BY <1>2, BeaconEffect DEF Present
  <2>3. CASE Untouched /\ (TableFull \/ Known(f))
    <3>1. Reported' = Reported /\ SlotPerNetwork'
      BY <2>3, ReportedStays DEF SlotPerNetwork, Untouched
    <3>2. Known(f) => n \in Reported
      BY DEF Known, SameNetwork, SameName, Reported, Pair
    <3>3. Cardinality(Reported) < MAX_PACKET_INFO_COUNT => n \in Reported
      BY <1>0, <2>3, <3>2 DEF SlotPerNetwork, TableFull
    <3>4. Reported' = IF Cardinality(Reported) < MAX_PACKET_INFO_COUNT
                      THEN Reported \union {n} ELSE Reported
      BY <3>1, <3>3
    <3>5. Report!Hear(n)
      BY <2>1, <2>2, <3>4 DEF Report!Hear, Report!Cardinality, Cardinality, Reported, Present, Pair
    <3> QED BY <2>1, <3>1, <3>5 DEF Report!Next
  <2>4. CASE Counted(Filled(f)) /\ ~ Known(f)
    <3>1. Reported' = Reported \union {n} /\ SlotPerNetwork'
      BY <2>4, ReportedGrows
    <3>2. ~ TableFull
      BY <1>0, <1>2, <2>4 DEF SkipWhenFull, DiscardDuplicate, SaveBeacon, Counted, counters
    <3>3. Cardinality(Reported) < MAX_PACKET_INFO_COUNT
      BY <1>0, <3>2 DEF TableFull, SlotPerNetwork
    <3>4. Report!Hear(n)
      BY <2>1, <2>2, <3>1, <3>3 DEF Report!Hear, Report!Cardinality, Cardinality, Reported, Present, Pair
    <3> QED BY <2>1, <3>1, <3>4 DEF Report!Next
  <2> QED BY <1>2, <2>3, <2>4, BeaconEffect
<1>3. ASSUME Untouched, heard' = heard PROVE SlotPerNetwork' /\ Reported' = Reported /\ Present' = Present
  BY <1>3, ReportedStays DEF SlotPerNetwork, Untouched, Present
<1>4. CASE FinishCapture \/ LoopFails \/ \E f \in Beacons : NameOverrun(f) \/ HeaderRunsAway(f)
  <2>1. pc = "looping" /\ pc' # "looping" /\ Untouched /\ heard' = heard
    BY <1>4, LastFrameEffect
       DEF FinishCapture, LoopFails, NameOverrun, HeaderRunsAway, Deliver, Untouched, counters, history
  <2>2. Report!End
    BY <1>3, <2>1 DEF Report!End, Reported, Present, Pair
  <2> QED BY <1>3, <2>1, <2>2 DEF Report!Next
<1>5. CASE SetupFails \/ UNCHANGED vars
  <2>1. (pc = "looping" <=> pc' = "looping") /\ Untouched /\ heard' = heard
    BY <1>5 DEF SetupFails, vars, counters, history, Untouched
  <2> QED BY <1>3, <2>1
<1> QED BY <1>1, <1>2, <1>4, <1>5 DEF Next, Callback

\* With beacons only and names that fit their field, a capture reports exactly the
\* distinct networks it heard, cut off at the size of the table.
THEOREM ReportImplemented ==
  ASSUME LongSsids = {}, StrayTypes = {}
  PROVE  Spec => ReportsDistinctNetworks
<1>1. Init => SlotPerNetwork /\ Report!Init
  <2> SUFFICES ASSUME Init PROVE SlotPerNetwork /\ Report!Init
    OBVIOUS
  <2>1. Reported = {} /\ Present = {} /\ cur_packet_count = 0 /\ pc = "idle"
    BY DEF Init, Reported, Present, Saved
  <2> QED BY <2>1, FS_EmptySet DEF SlotPerNetwork, Report!Init, Reported, Present, Pair
<1>2. TypeOK /\ SlotPerNetwork /\ [Next]_vars
        => SlotPerNetwork' /\ [Report!Next]_<<pc = "looping", Present, Reported>>
  BY ReportStep
<1> QED BY <1>1, <1>2, TypeCorrect, PTL
        DEF Spec, ReportsDistinctNetworks, Report!Spec, Report!vars, Reported, Present, Pair
=============================================================================
