---------------------------- MODULE BeaconCapture ----------------------------
(***************************************************************************)
(* The capture core of the C server (rpi-local-server/client_main.c):      *)
(* capture_packets resets the counters and runs pcap_loop, which calls     *)
(* packet_capture_callback once per frame.  The callback fills the slot    *)
(* cur_packet_count of the global array and then decides whether the slot  *)
(* counts.  The array is never cleared: a slot keeps what an earlier frame *)
(* or an earlier capture left in it.                                       *)
(*                                                                         *)
(* Data abstraction.  A name, a BSSID and a reading are elements of small  *)
(* sets.  `addr' stands for the source and destination address (always     *)
(* written together), `reading' for the four optional radiotap fields      *)
(* (rate, antenna, channel, power: each written only when present).        *)
(***************************************************************************)
EXTENDS Naturals, FiniteSets

CONSTANTS
  Ssids,                     \* network names on the air
  LongSsids,                 \* those of MAX_SSID_CHAR_COUNT characters or more
  Bssids,                    \* access point addresses
  Addrs,                     \* source and destination addresses
  Readings,                  \* values of a radiotap field, Absent possibly among them
  Empty,                     \* what a zeroed slot holds; the name of a hidden network
  Absent,                    \* a radiotap field the frame does not carry
  StrayTypes,                \* frame types other than beacon the air may carry
  MAX_PACKET_INFO_COUNT,     \* slots in the array (50)
  MAX_PACKET_CAPTURE_COUNT   \* frames asked of pcap_loop (100)

ASSUME BoundsAssumption ==
  /\ MAX_PACKET_INFO_COUNT \in Nat \ {0}
  /\ MAX_PACKET_CAPTURE_COUNT \in Nat

ASSUME AirAssumption ==
  /\ LongSsids \subseteq Ssids
  /\ Empty \notin LongSsids
  /\ StrayTypes \subseteq {"zero", "other"}

VARIABLES
  pc,                            \* "idle", "looping" (inside pcap_loop),
                                 \* "dead" (exited, aborted or lost in a header)
  captured,                      \* frames this pcap_loop has delivered
  packet_info_array,
  cur_packet_count,
  packet_info_count,
  dup_packets_discarded,
  packets_same_ssid_diff_bssid,
  heard,                         \* history: beacons whose callback returned, this capture
  before                         \* history: left-overs in the slots when this capture began

counters == <<cur_packet_count, packet_info_count, dup_packets_discarded,
              packets_same_ssid_diff_bssid>>
history == <<heard, before>>
vars == <<pc, captured, packet_info_array, counters, history>>

Slots == 0 .. MAX_PACKET_INFO_COUNT - 1
Saved == 0 .. cur_packet_count - 1

Beacons == [ssid : Ssids, bssid : Bssids, addr : Addrs,
            reading : Readings]

PacketInfo == [ethernet_type : {"zero", "beacon", "other"},
               ssid : Ssids \union {Empty}, bssid : Bssids \union {Empty},
               addr : Addrs \union {Empty},
               reading : (Readings \ {Absent}) \union {Empty}]

ZeroedSlot == [ethernet_type |-> "zero", ssid |-> Empty, bssid |-> Empty,
               addr |-> Empty, reading |-> Empty]

-----------------------------------------------------------------------------
(***************************************************************************)
(* pkt_with_ssid_bssid_exists: a linear scan of the counted slots.  A long *)
(* name matches nothing: the stored copy has no terminator of its own and  *)
(* strcmp reads on into the source address, which makes it longer than the *)
(* 15 characters of the local copy it is compared with.                    *)
(***************************************************************************)
SameName(i, f) ==
  /\ f.ssid \notin LongSsids
  /\ packet_info_array[i].ssid = f.ssid

\* Mutant: the BSSID is not compared.
SameNetwork_NameOnly(i, f) == SameName(i, f)

SameNetwork(i, f) == SameName(i, f) /\ packet_info_array[i].bssid = f.bssid

\* Mutant: the scan misses the latest slot.
Known_SkipsLatest(f) == \E i \in 0 .. cur_packet_count - 2 : SameNetwork(i, f)

Known(f) == \E i \in Saved : SameNetwork(i, f)

\* Mutant: the BSSID need not differ.
SameNameOtherBssid_AnyBssid(f) == {i \in Saved : SameName(i, f)}

\* The scan stops at the first match, so later slots are not counted.
SameNameOtherBssid(f) ==
  {i \in Saved : /\ SameName(i, f)
                 /\ packet_info_array[i].bssid # f.bssid
                 /\ \A j \in 0 .. i - 1 : ~ SameNetwork(j, f)}

\* What a record may keep of what its slot held.
LeftOvers ==
  [i \in Slots |-> [addr |-> packet_info_array[i].addr, reading |-> packet_info_array[i].reading]]

-----------------------------------------------------------------------------
Init ==
  /\ pc = "idle"
  /\ captured = 0
  /\ packet_info_array = [i \in Slots |-> ZeroedSlot]
  /\ cur_packet_count = 0
  /\ packet_info_count = 0
  /\ dup_packets_discarded = 0
  /\ packets_same_ssid_diff_bssid = 0
  /\ heard = {}
  /\ before = LeftOvers

\* Mutant: the duplicates of the capture before are kept.
ResetCounters_KeepsDuplicates ==
  /\ cur_packet_count' = 0
  /\ packet_info_count' = 0
  /\ packets_same_ssid_diff_bssid' = 0
  /\ UNCHANGED dup_packets_discarded

ResetCounters ==
  /\ cur_packet_count' = 0
  /\ packet_info_count' = 0
  /\ dup_packets_discarded' = 0
  /\ packets_same_ssid_diff_bssid' = 0

\* capture_packets up to the call of pcap_loop: the counters are reset, the
\* array is not.
StartCapture ==
  /\ pc = "idle"
  /\ pc' = "looping"
  /\ captured' = 0
  /\ ResetCounters
  /\ heard' = {}
  /\ before' = LeftOvers
  /\ UNCHANGED packet_info_array

\* The device, the filter program or the filter cannot be set up: exit(1).
SetupFails ==
  /\ pc = "idle"
  /\ pc' = "dead"
  /\ UNCHANGED <<captured, packet_info_array, counters, history>>

\* pcap_loop hands one more frame to the callback.
Deliver ==
  /\ pc = "looping"
  /\ captured < MAX_PACKET_CAPTURE_COUNT
  /\ captured' = captured + 1

\* Mutant: one frame too many is let in.
TableFull_OffByOne == cur_packet_count > MAX_PACKET_INFO_COUNT

TableFull == cur_packet_count >= MAX_PACKET_INFO_COUNT

\* Mutant: the slot written is the latest counted one.
WriteSlot_Counted(rec) ==
  packet_info_array' = [packet_info_array EXCEPT ![cur_packet_count - 1] = rec]

\* The slot the callback writes.
WriteSlot(rec) ==
  packet_info_array' = [packet_info_array EXCEPT ![cur_packet_count] = rec]

CountPacket ==
  /\ cur_packet_count' = cur_packet_count + 1
  /\ packet_info_count' = packet_info_count + 1

\* The array is full: the callback returns at once.
SkipWhenFull(f) ==
  /\ Deliver
  /\ TableFull
  /\ heard' = heard \union {f}
  /\ UNCHANGED <<pc, packet_info_array, counters, before>>

\* Mutant: the radiotap header is parsed before the scan.
Recognised_ReadFirst(f) ==
  [packet_info_array[cur_packet_count] EXCEPT
     !.ethernet_type = "beacon", !.ssid = f.ssid, !.bssid = f.bssid,
     !.reading = IF f.reading = Absent THEN @ ELSE f.reading]

\* The slot when the scan finds the network.
Recognised(f) ==
  [packet_info_array[cur_packet_count] EXCEPT
     !.ethernet_type = "beacon", !.ssid = f.ssid, !.bssid = f.bssid]

\* A network already counted: type, name and BSSID are in the slot by the time
\* the scan finds it, then parse_ethernet returns 0 and the slot is not counted.
DiscardDuplicate(f) ==
  /\ Deliver
  /\ ~ TableFull
  /\ Known(f)
  /\ WriteSlot(Recognised(f))
  /\ dup_packets_discarded' = dup_packets_discarded + 1
  /\ packets_same_ssid_diff_bssid' =
       packets_same_ssid_diff_bssid + Cardinality(SameNameOtherBssid(f))
  /\ heard' = heard \union {f}
  /\ UNCHANGED <<pc, cur_packet_count, packet_info_count, before>>

\* Mutant: the addresses stay those of the frame before.
Filled_OldAddress(f) ==
  [packet_info_array[cur_packet_count] EXCEPT
     !.ethernet_type = "beacon", !.ssid = f.ssid, !.bssid = f.bssid,
     !.reading = IF f.reading = Absent THEN @ ELSE f.reading]

\* The slot after parse_ethernet and parseRadioTap of a new network's beacon.
Filled(f) ==
  [ethernet_type |-> "beacon", ssid |-> f.ssid, bssid |-> f.bssid, addr |-> f.addr,
   reading |-> IF f.reading = Absent THEN packet_info_array[cur_packet_count].reading
                                     ELSE f.reading]

\* A new network: the whole slot is written, except the radiotap fields the
\* frame does not carry, and counted.
SaveBeacon(f) ==
  /\ Deliver
  /\ ~ TableFull
  /\ ~ Known(f)
  /\ WriteSlot(Filled(f))
  /\ CountPacket
  /\ packets_same_ssid_diff_bssid' =
       packets_same_ssid_diff_bssid + Cardinality(SameNameOtherBssid(f))
  /\ heard' = heard \union {f}
  /\ UNCHANGED <<pc, dup_packets_discarded, before>>

\* A name of 15 characters or more is copied past the end of the local buffer.
\* The build's stack guard ends the process for the longest ones.
NameOverrun(f) ==
  /\ Deliver
  /\ ~ TableFull
  /\ f.ssid \in LongSsids
  /\ pc' = "dead"
  /\ UNCHANGED <<packet_info_array, counters, history>>

\* parseRadioTap does not return from a header whose fields do not fit its length
\* (RadiotapIterator): the frame is parsed and never counted.
HeaderRunsAway(f) ==
  /\ Deliver
  /\ ~ TableFull
  /\ ~ Known(f)
  /\ WriteSlot(Filled(f))
  /\ pc' = "dead"
  /\ packets_same_ssid_diff_bssid' =
       packets_same_ssid_diff_bssid + Cardinality(SameNameOtherBssid(f))
  /\ UNCHANGED <<cur_packet_count, packet_info_count, dup_packets_discarded, history>>

\* A frame whose bytes at the fixed offset 18 do not read as a beacon: only the
\* type is written.  A type of 0 makes the callback return, any other counts.
StrayFrame(t) ==
  /\ Deliver
  /\ IF TableFull
     THEN UNCHANGED <<packet_info_array, cur_packet_count, packet_info_count>>
     ELSE /\ WriteSlot([packet_info_array[cur_packet_count] EXCEPT !.ethernet_type = t])
          /\ IF t = "zero" THEN UNCHANGED <<cur_packet_count, packet_info_count>>
                           ELSE CountPacket
  /\ UNCHANGED <<pc, dup_packets_discarded, packets_same_ssid_diff_bssid, history>>

\* pcap_loop returns: it delivered what was asked, or failed (the return value
\* is ignored); either way what was counted is what generateJson will print.
FinishCapture ==
  /\ pc = "looping"
  /\ captured = MAX_PACKET_CAPTURE_COUNT
  /\ pc' = "idle"
  /\ UNCHANGED <<captured, packet_info_array, counters, history>>

LoopFails ==
  /\ pc = "looping"
  /\ captured < MAX_PACKET_CAPTURE_COUNT
  /\ pc' = "idle"
  /\ UNCHANGED <<captured, packet_info_array, counters, history>>

Callback ==
  \/ \E f \in Beacons : \/ SkipWhenFull(f)
                        \/ DiscardDuplicate(f)
                        \/ SaveBeacon(f)
                        \/ NameOverrun(f)
                        \/ HeaderRunsAway(f)
  \/ \E t \in StrayTypes : StrayFrame(t)

Next == StartCapture \/ SetupFails \/ Callback \/ FinishCapture \/ LoopFails

Spec == Init /\ [][Next]_vars

-----------------------------------------------------------------------------
TypeOK ==
  /\ pc \in {"idle", "looping", "dead"}
  /\ captured \in 0 .. MAX_PACKET_CAPTURE_COUNT
  /\ packet_info_array \in [Slots -> PacketInfo]
  /\ cur_packet_count \in 0 .. MAX_PACKET_INFO_COUNT
  /\ packet_info_count \in 0 .. MAX_PACKET_INFO_COUNT
  /\ dup_packets_discarded \in Nat
  /\ packets_same_ssid_diff_bssid \in Nat
  /\ heard \subseteq Beacons
  /\ before \in [Slots -> [addr : Addrs \union {Empty},
                          reading : (Readings \ {Absent}) \union {Empty}]]

\* A counted beacon record repeats no record counted before it, neither a beacon
\* nor a stray slot with old contents (pkt_with_ssid_bssid_exists scans both).
DistinctBeacons ==
  \A j \in Saved : \A i \in 0 .. j - 1 :
    LET new == packet_info_array[j]
        old == packet_info_array[i]
    IN  (new.ethernet_type = "beacon" /\ new.ssid \notin LongSsids)
          => <<old.ssid, old.bssid>> # <<new.ssid, new.bssid>>

\* Every network heard since the capture began is in the table, unless the table
\* filled up: no early return of the callback loses a new network.
NoNetworkMissed ==
  \A f \in heard :
    \/ cur_packet_count = MAX_PACKET_INFO_COUNT
    \/ \E i \in Saved : /\ packet_info_array[i].ssid = f.ssid
                        /\ packet_info_array[i].bssid = f.bssid

\* The three counters explain the frames delivered: what was not saved was a
\* duplicate, as long as the table has room and no frame of type 0 came in.
\* (capture_packets prints them side by side, generateJson trusts the second.)
EveryFrameAccounted ==
  /\ packet_info_count = cur_packet_count
  /\ cur_packet_count + dup_packets_discarded <= captured
  /\ (pc # "dead" /\ cur_packet_count < MAX_PACKET_INFO_COUNT /\ "zero" \notin StrayTypes)
       => cur_packet_count + dup_packets_discarded = captured

\* A counted beacon record is one frame of this capture, never parts of two: its
\* name, addresses and readings come from the same frame (readings the frame
\* does not carry excepted, see LeftOversAreOlder).
SavedBeaconWasHeard ==
  \A i \in Saved :
    LET rec == packet_info_array[i]
    IN  rec.ethernet_type = "beacon" =>
          \E f \in heard : /\ <<f.ssid, f.bssid, f.addr>> = <<rec.ssid, rec.bssid, rec.addr>>
                           /\ f.reading \in {Absent, rec.reading}

\* What a counted record does not have from its own frame is what the slot held when the
\* capture began, never a part of another frame of this capture that went through the
\* slot (a duplicate, a frame of type 0): a reading that the frame of a beacon record does
\* not carry, and the addresses and readings of a stray record.
LeftOversAreOlder ==
  \A i \in Saved :
    LET rec == packet_info_array[i]
    IN  IF rec.ethernet_type = "beacon"
        THEN \E f \in heard :
               /\ <<f.ssid, f.bssid, f.addr>> = <<rec.ssid, rec.bssid, rec.addr>>
               /\ rec.reading = IF f.reading = Absent THEN before[i].reading ELSE f.reading
        ELSE <<rec.addr, rec.reading>> = <<before[i].addr, before[i].reading>>

\* The statistic capture_packets prints tells whether two records of this capture have
\* one name and different BSSIDs: it is not zero exactly then, although it is counted
\* before the scan knows whether the frame is a duplicate, and in pairs.  (A stray
\* frame's slot is compared with by later frames, but is compared with none itself.)
SameNameNoticed ==
  LET SameNameAs(i, j) == /\ packet_info_array[i].ssid = packet_info_array[j].ssid
                          /\ packet_info_array[i].ssid \notin LongSsids
                          /\ packet_info_array[i].bssid # packet_info_array[j].bssid
  IN  pc # "dead" =>
        /\ packets_same_ssid_diff_bssid > 0 =>
             \E i, j \in Saved : SameNameAs(i, j)
        /\ packets_same_ssid_diff_bssid = 0 =>
             \A j \in Saved : packet_info_array[j].ethernet_type = "beacon" =>
               \A i \in 0 .. j - 1 : ~ SameNameAs(i, j)

\* A counted record is never written again while its capture runs, and a count
\* never goes back: the first frame heard of a network is the one reported.
FirstFrameWins ==
  [][pc = "looping" => /\ cur_packet_count' >= cur_packet_count
                       /\ \A i \in Saved : packet_info_array'[i] = packet_info_array[i]]_vars

\* With beacons only, names that fit their field, the report is exactly the
\* set of networks heard, cut off at the size of the table: the scan, the slots
\* and the three counters implement DistinctNetworks.
Report == INSTANCE DistinctNetworks WITH
  Networks  <- Ssids \X Bssids,
  Capacity  <- MAX_PACKET_INFO_COUNT,
  listening <- pc = "looping",
  present   <- {<<f.ssid, f.bssid>> : f \in heard},
  reported  <- {<<packet_info_array[i].ssid, packet_info_array[i].bssid>> : i \in Saved}

ReportsDistinctNetworks == Report!Spec
=============================================================================
