----------------------------- MODULE ForkTable -----------------------------
(***************************************************************************)
(* How Blockchain::init fills the tracker's fork table: it hands every     *)
(* entry of the compiled-in table to HardFork::add_fork, in order, and     *)
(* ignores whether the entry was accepted.                                 *)
(***************************************************************************)
EXTENDS Naturals, Sequences

CONSTANT Tables   \* the compiled-in tables considered

ASSUME TablesAssumption ==
  \A t \in Tables :
     t \in Seq([version : Nat, height : Nat, threshold : Nat, time : Nat])

VARIABLES
  table,     \* the table of this build and network
  handed,    \* the loop counter: entries handed to add_fork so far
  heights    \* the entries the tracker holds

fillVars == <<table, handed, heights>>

\* Mutants: the height is not compared; a threshold of 0 is refused.
AcceptsAnyHeight(hs, e) ==
  /\ e.version # 0
  /\ hs # <<>> => LET last == hs[Len(hs)]
                  IN  e.version > last.version /\ e.time > last.time
  /\ e.threshold <= 100

AcceptsVotedOnly(hs, e) ==
  /\ AcceptsAnyHeight(hs, e)
  /\ hs # <<>> => e.height > hs[Len(hs)].height
  /\ e.threshold > 0

\* The entry has the shape add_fork wants, and comes after the last.
Accepts(hs, e) ==
  /\ e.version # 0
  /\ hs # <<>> => LET last == hs[Len(hs)]
                  IN  /\ e.version > last.version
                      /\ e.height > last.height
                      /\ e.time > last.time
  /\ e.threshold <= 100

add_fork ==
  /\ handed < Len(table)
  /\ handed' = handed + 1
  /\ heights' = IF Accepts(heights, table[handed + 1]) THEN Append(heights, table[handed + 1]) ELSE heights
  /\ UNCHANGED table

FillInit ==
  /\ table \in Tables
  /\ handed = 0
  /\ heights = <<>>

FillNext == add_fork

FillSpec == FillInit /\ [][FillNext]_fillVars
-----------------------------------------------------------------------------
(***************************************************************************)
(* The tables of hardforks.cpp.                                            *)
(***************************************************************************)
hardfork_t(v, h, thr, t) == [version |-> v, height |-> h, threshold |-> thr, time |-> t]

mainnet_hard_forks ==
  << hardfork_t(1, 1, 0, 1532344521),       hardfork_t(2, 20, 0, 1532345299),
     hardfork_t(3, 40, 0, 1532348216),      hardfork_t(4, 60, 0, 1532351344),
     hardfork_t(5, 80, 0, 1532352706),      hardfork_t(6, 100, 0, 1532353879),
     hardfork_t(7, 120, 0, 1532356226),     hardfork_t(8, 5800, 0, 1541572216),
     hardfork_t(9, 5850, 0, 1541846405),    hardfork_t(10, 5900, 0, 1542911469),
     hardfork_t(11, 5950, 0, 1556115272),   hardfork_t(12, 6000, 0, 1556201672),
     hardfork_t(13, 152500, 0, 1605752204), hardfork_t(14, 550000, 0, 1654089255) >>

testnet_hard_forks ==
  << hardfork_t(1, 1, 0, 1341378000),    hardfork_t(2, 15, 0, 1442763710),
     hardfork_t(3, 30, 0, 1458558528),   hardfork_t(4, 45, 0, 1483574400),
     hardfork_t(5, 60, 0, 1489520158),   hardfork_t(6, 75, 0, 1540190226),
     hardfork_t(7, 90, 0, 1540193826),   hardfork_t(8, 105, 0, 1540197426),
     hardfork_t(9, 115, 0, 1540201026),  hardfork_t(10, 130, 0, 1542903118),
     hardfork_t(11, 145, 0, 1554478208), hardfork_t(12, 160, 0, 1554488208),
     hardfork_t(13, 200, 0, 1605752204), hardfork_t(14, 260, 0, 1654089255) >>

stagenet_hard_forks ==
  << hardfork_t(1, 1, 0, 1341378000),    hardfork_t(2, 20, 0, 1521000000),
     hardfork_t(3, 40, 0, 1521120000),   hardfork_t(4, 60, 0, 1521240000),
     hardfork_t(5, 80, 0, 1521360000),   hardfork_t(6, 100, 0, 1521480000),
     hardfork_t(7, 120, 0, 1521600000),  hardfork_t(8, 140, 0, 1537821770),
     hardfork_t(9, 160, 0, 1537821771),  hardfork_t(10, 180, 0, 1542903118),
     hardfork_t(11, 200, 0, 1554478208), hardfork_t(12, 220, 0, 1554488208),
     hardfork_t(13, 260, 0, 1554478208), hardfork_t(14, 300, 0, 1554488208) >>
-----------------------------------------------------------------------------
\* The tracker's table is strictly increasing in version, height and time whatever
\* entries it was offered (HardFork::add_fork): HardFork.tla assumes it of its table.
OrderedHeights ==
  \A i, j \in 1..Len(heights) :
     i < j => /\ heights[i].version < heights[j].version
              /\ heights[i].height < heights[j].height
              /\ heights[i].time < heights[j].time

\* Which entries of the shipped tables the loop of Blockchain::init drops: none on the
\* main and test networks; on stagenet versions 13 and 14, which are not dated after
\* version 12, so that a stagenet node stays at version 12.
Scheduled == {heights[i].version : i \in 1..Len(heights)}
ShippedForksScheduled ==
  handed = Len(table) =>
    /\ table \in {mainnet_hard_forks, testnet_hard_forks} => Scheduled = 1..14
    /\ table = stagenet_hard_forks => Scheduled = 1..12
=============================================================================
