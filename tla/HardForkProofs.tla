-------------------------- MODULE HardForkProofs --------------------------
(***************************************************************************)
(* Proofs about HardFork, for every fork table, window size and bound, and *)
(* about ForkTable, which fills the table, for every table compiled in.    *)
(***************************************************************************)
EXTENDS HardFork, ForkTable, DataLemmas, TLAPS

\* Leaves that name no prover are for the SMT solver first, with time to spare.
USE SMTT(60), ZenonT(60), SMTT(120)

\* What Max returns on a nonempty set of table indices.
LEMMA LargestIsMax ==
  ASSUME NEW r \in Nat, NEW S, S \subseteq 1..r, S # {}
  PROVE  /\ Max(S) \in S
         /\ \A m \in S : m <= Max(S)
<1>1. S \subseteq 0..r
  OBVIOUS
<1> QED
  BY <1>1, MaxIs, ZenonT(60)

\* A table index, and what the table promises of it.
LEMMA TableFacts ==
  /\ Len(Table) \in Nat \ {0}
  /\ \A n \in 1..Len(Table) : /\ Table[n].version \in Nat \ {0}
                              /\ Table[n].height \in Nat
                              /\ Table[n].threshold \in 0..100
                              /\ Table[n].version \in Version
  /\ Table[1].version = 1
  /\ \A m, n \in 1..Len(Table) :
        m < n => Table[m].version < Table[n].version /\ Table[m].height < Table[n].height
  /\ \A m, n \in 1..Len(Table) : Table[m].version = Table[n].version => m = n
  /\ \A m, n \in 1..Len(Table) : m <= n <=> Table[m].version <= Table[n].version
  /\ Version \subseteq Nat
<1>1. Table \in Seq([version : Nat \ {0}, height : Nat, threshold : 0..100]) /\ Table # <<>>
  BY TableAssumption DEF IsForkTable
<1>2. /\ Len(Table) \in Nat \ {0}
      /\ \A n \in 1..Len(Table) : Table[n] \in [version : Nat \ {0}, height : Nat, threshold : 0..100]
  BY <1>1, ElementIs, LenIs, ZenonT(60)
<1>3. \A m, n \in 1..Len(Table) :
        m < n => Table[m].version < Table[n].version /\ Table[m].height < Table[n].height
  BY TableAssumption DEF IsForkTable
<1>4. \A n \in 1..Len(Table) : /\ Table[n].version \in Nat \ {0}
                               /\ Table[n].height \in Nat
                               /\ Table[n].threshold \in 0..100
                               /\ Table[n].version \in Version
  BY <1>2 DEF Version
<1>5. \A m, n \in 1..Len(Table) : Table[m].version = Table[n].version => m = n
  BY <1>2, <1>3, <1>4
<1>6. \A m, n \in 1..Len(Table) : m <= n <=> Table[m].version <= Table[n].version
  BY <1>2, <1>3, <1>4
<1> QED
  BY <1>2, <1>3, <1>4, <1>5, <1>6, TableAssumption DEF Version, IsForkTable

\* get_ideal_version picks the last fork that is due, or the first entry.
LEMMA IdealIs ==
  ASSUME NEW r \in 1..Len(Table), NEW h \in Nat
  PROVE  /\ get_ideal_index(r, h) \in 1..r
         /\ get_ideal_index(r, h) = 1 \/ h >= Table[get_ideal_index(r, h)].height
         /\ \A n \in 1..r : h >= Table[n].height => n <= get_ideal_index(r, h)
<1> DEFINE S == {n \in 1..r : n = 1 \/ h >= Table[n].height}
<1>1. r \in Nat /\ S \subseteq 1..r /\ 1 \in S
  BY TableFacts
<1>2. S # {}
  BY <1>1, ZenonT(60)
<1>3. Max(S) \in S /\ \A m \in S : m <= Max(S)
  BY <1>1, <1>2, LargestIsMax, ZenonT(60)
<1>4. get_ideal_index(r, h) = Max(S)
  BY DEF get_ideal_index
<1> QED
  BY <1>3, <1>4

\* A later height or a longer table never schedules an earlier fork.
LEMMA IdealMonotone ==
  ASSUME NEW r \in 1..Len(Table), NEW s \in 1..Len(Table), NEW h \in Nat, NEW g \in Nat,
         r <= s, h <= g
  PROVE  get_ideal_index(r, h) <= get_ideal_index(s, g)
<1> DEFINE i == get_ideal_index(r, h)
           j == get_ideal_index(s, g)
<1>1. i \in 1..r /\ (i = 1 \/ h >= Table[i].height)
  BY IdealIs, ZenonT(60)
<1>2. j \in 1..s /\ \A n \in 1..s : g >= Table[n].height => n <= j
  BY IdealIs, ZenonT(60)
<1> QED
  BY <1>1, <1>2, TableFacts

\* Entries added behind the scheduled one change nothing.
LEMMA IdealExtend ==
  ASSUME NEW r \in 1..Len(Table), NEW s \in 1..Len(Table), NEW h \in Nat,
         r <= s, get_ideal_index(s, h) <= r
  PROVE  get_ideal_index(r, h) = get_ideal_index(s, h)
<1> DEFINE i == get_ideal_index(r, h)
           j == get_ideal_index(s, h)
<1>1. i <= j
  BY IdealMonotone
<1>2. /\ i \in 1..r
      /\ \A n \in 1..r : h >= Table[n].height => n <= i
  BY IdealIs
<1>3. j \in 1..s /\ (j = 1 \/ h >= Table[j].height)
  BY IdealIs
<1> QED
  BY <1>1, <1>2, <1>3, TableFacts

\* Only the first entry is scheduled for the genesis block.
LEMMA IdealOfGenesis ==
  ASSUME NEW r \in 1..Len(Table)
  PROVE  get_ideal_index(r, 0) = 1
<1> DEFINE i == get_ideal_index(r, 0)
<1>1. i \in 1..r /\ (i = 1 \/ 0 >= Table[i].height)
  BY IdealIs
<1> QED
  BY <1>1, TableFacts
-----------------------------------------------------------------------------
(***************************************************************************)
(* The window, the stored versions and the choice of a fork have the       *)
(* types the operations rely on.                                           *)
(***************************************************************************)
LEMMA VoteType ==
  ASSUME NEW r \in 1..Len(Table), NEW b \in Block
  PROVE  get_effective_version(r, get_block_vote(b)) \in Nat
<1>1. b.minor \in Nat
  BY BoundsAssumption DEF Block
<1>2. Table[r].version \in Nat
  BY TableFacts
<1> QED
  BY <1>1, <1>2 DEF get_effective_version, get_block_vote

\* The rebuilt window is a nonempty sequence of votes.
LEMMA WindowType ==
  ASSUME NEW r \in 1..Len(Table), NEW c \in Seq(Block), NEW h \in 0..(Len(c) - 1)
  PROVE  /\ WindowUpTo(r, c, h) \in Seq(Nat)
         /\ Len(WindowUpTo(r, c, h)) >= 1
<1> DEFINE first == IF h >= WindowSize - 1 THEN h - (WindowSize - 1) ELSE 0
           n == h - first + 1
           vote(i) == get_effective_version(r, get_block_vote(c[first + i]))
<1>1. first \in 0..h /\ n \in Nat /\ n >= 1
  BY BoundsAssumption
<1>2. \A i \in 1..n : c[first + i] \in Block
  <2> TAKE i \in 1..n
  <2>1. first + i \in 1..Len(c)
    BY <1>1
  <2> QED
    BY <2>1, ElementIs
<1>3. \A i \in 1..n : vote(i) \in Nat
  BY <1>2, VoteType
<1>4. WindowUpTo(r, c, h) = [i \in 1..n |-> vote(i)]
  BY DEF WindowUpTo
<1> HIDE DEF n, vote, first
<1>5. [i \in 1..n |-> vote(i)] \in Seq(Nat) /\ Len([i \in 1..n |-> vote(i)]) = n
  BY <1>1, <1>3
<1> QED
  BY <1>1, <1>4, <1>5

\* Pushing a vote keeps the window a nonempty sequence of votes.
LEMMA PushType ==
  ASSUME NEW vs \in Seq(Nat), NEW v \in Nat
  PROVE  PushVote(vs, v) \in Seq(Nat) /\ Len(PushVote(vs, v)) >= 1
<1> DEFINE keep == IF Len(vs) >= WindowSize THEN WindowSize - 1 ELSE Len(vs)
           old == SubSeq(vs, Len(vs) - keep + 1, Len(vs))
<1>1. keep \in Nat /\ keep <= Len(vs) /\ Len(vs) \in Nat
  BY BoundsAssumption
<1>2. \A i \in (Len(vs) - keep + 1)..Len(vs) : vs[i] \in Nat
  BY <1>1
<1>3. old \in Seq(Nat)
  <2> HIDE DEF keep
  <2>1. Len(vs) - keep + 1 \in Int /\ Len(vs) \in Int
    BY <1>1
  <2> QED
    BY <1>2, <2>1, SubSeqIs
<1>4. PushVote(vs, v) = Append(old, v)
  BY DEF PushVote
<1> HIDE DEF old
<1>5. Len(old) \in Nat
  BY <1>3
<1> QED
  BY <1>3, <1>4, <1>5, AppendIs

\* Storing the version of a height changes that height only.
LEMMA SetVersionIs ==
  ASSUME NEW hv \in Seq(Version), NEW h \in Nat, h <= Len(hv), NEW v \in Version
  PROVE  /\ SetVersion(hv, h, v) \in Seq(Version)
         /\ Len(SetVersion(hv, h, v)) >= Len(hv)
         /\ Len(SetVersion(hv, h, v)) >= h + 1
         /\ SetVersion(hv, h, v)[h + 1] = v
         /\ \A i \in 1..Len(hv) : i # h + 1 => SetVersion(hv, h, v)[i] = hv[i]
<1>1. CASE h + 1 <= Len(hv)
  <2>1. SetVersion(hv, h, v) = [hv EXCEPT ![h + 1] = v]
    BY <1>1 DEF SetVersion
  <2> QED
    BY <1>1, <2>1
<1>2. CASE ~ (h + 1 <= Len(hv))
  <2>1. SetVersion(hv, h, v) = Append(hv, v) /\ Len(hv) = h
    BY <1>2 DEF SetVersion
  <2> QED
    BY <2>1, AppendIs
<1> QED
  BY <1>1, <1>2

\* The fork that won the vote is one the release knows.
LEMMA VotedType ==
  ASSUME NEW r \in 1..Len(Table), NEW vs, NEW cur \in 1..r, NEW h \in Nat
  PROVE  AtLeast(get_voted_fork_index(r, vs, cur, h), cur) \in 1..r
<1> DEFINE ready == {n \in 1..r : h >= Table[n].height /\ Votes(r, vs, n) >= Threshold(n)}
<1>1. r \in Nat /\ ready \subseteq 1..r
  BY TableFacts
<1>2. ready # {} => Max(ready) \in 1..r
  <2> HIDE DEF ready
  <2> QED
    BY <1>1, LargestIsMax, ZenonT(60)
<1>3. get_voted_fork_index(r, vs, cur, h) = IF ready = {} THEN cur ELSE Max(ready)
  BY DEF get_voted_fork_index
<1> QED
  BY <1>2, <1>3 DEF AtLeast

\* Walking back to the fork of a stored version stays within the table.
LEMMA BackToType ==
  ASSUME NEW cur \in 1..Len(Table), NEW v
  PROVE  BackTo(cur, v) \in 1..cur /\ (BackTo(cur, v) = 1 \/ Table[BackTo(cur, v)].version <= v)
<1> DEFINE S == {n \in 1..cur : n = 1 \/ Table[n].version <= v}
<1>1. cur \in Nat /\ S \subseteq 1..cur /\ 1 \in S
  BY TableFacts
<1>2. Max(S) \in S
  <2> HIDE DEF S
  <2> QED
    BY <1>1, LargestIsMax, ZenonT(60)
<1> QED
  BY <1>2 DEF BackTo

\* The fork found for the stored version of the top block is one the release knows.
LEMMA StoredType ==
  ASSUME NEW r \in 1..Len(Table), NEW v
  PROVE  /\ StoredIndex(r, v) \in 1..r
         /\ \A n \in 1..r : v = Table[n].version => StoredIndex(r, v) = n
<1> DEFINE found == {n \in 1..r : Table[n].version = v}
<1>1. r \in Nat /\ found \subseteq 1..r
  BY TableFacts
<1>2. found # {} => Max(found) \in found
  <2> HIDE DEF found
  <2> QED
    BY <1>1, LargestIsMax, ZenonT(60)
<1>3. StoredIndex(r, v) = IF found = {} THEN r ELSE Max(found)
  BY DEF StoredIndex
<1>4. \A m, n \in 1..r : Table[m].version = Table[n].version => m = n
  BY TableFacts
<1>5. StoredIndex(r, v) \in 1..r
  BY <1>2, <1>3
<1>6. ASSUME NEW n \in 1..r, v = Table[n].version
      PROVE  StoredIndex(r, v) = n
  <2>1. n \in found
    BY <1>6
  <2>2. Max(found) \in 1..r /\ Table[Max(found)].version = v
    BY <1>2, <2>1
  <2>3. StoredIndex(r, v) = Max(found)
    BY <1>3, <2>1
  <2> HIDE DEF found
  <2> QED
    BY <1>4, <1>6, <2>2, <2>3
<1> QED
  BY <1>5, <1>6

-----------------------------------------------------------------------------
(***************************************************************************)
(* Type correctness.                                                       *)
(***************************************************************************)
LEMMA AddType ==
  ASSUME TypeOK, NEW b \in Block, NEW h \in Nat, h <= Len(hf_versions), Add(b, h)
  PROVE  /\ hf_versions' \in Seq(Version) /\ Len(hf_versions') >= Len(hf_versions)
         /\ do_check(current_fork_index, b) => Len(hf_versions') >= h + 1
         /\ versions' \in Seq(Nat) /\ Len(versions') >= 1
         /\ current_fork_index' \in 1..release
<1> DEFINE vote == get_effective_version(release, get_block_vote(b))
<1>1. vote \in Nat
  BY VoteType DEF TypeOK
<1>2. Table[current_fork_index].version \in Version
  BY TableFacts DEF TypeOK
<1>3. PushVote(versions, vote) \in Seq(Nat) /\ Len(PushVote(versions, vote)) >= 1
  BY <1>1, PushType DEF TypeOK
<1>4. \A vs : AtLeast(get_voted_fork_index(release, vs, current_fork_index, h + 1),
                      current_fork_index) \in 1..release
  BY VotedType DEF TypeOK
<1>5. CASE do_check(current_fork_index, b)
  <2>1. /\ hf_versions' = SetVersion(hf_versions, h, Table[current_fork_index].version)
        /\ versions' = PushVote(versions, vote)
        /\ current_fork_index' =
             AtLeast(get_voted_fork_index(release, PushVote(versions, vote), current_fork_index, h + 1),
                     current_fork_index)
    BY <1>5 DEF Add
  <2>2. hf_versions \in Seq(Version)
    BY DEF TypeOK
  <2> QED
    BY <1>2, <1>3, <1>4, <2>1, <2>2, SetVersionIs
<1>6. CASE ~ do_check(current_fork_index, b)
  BY <1>6 DEF Add, TypeOK
<1> QED
  BY <1>5, <1>6

\* The window and the fork index a reorganisation starts from have their types.
LEMMA RebuildType ==
  ASSUME TypeOK, NEW h \in 0..(Len(chain) - 1), RebuildAt(h, chain)
  PROVE  /\ versions' \in Seq(Nat) /\ Len(versions') >= 1
         /\ current_fork_index' \in 1..release
<1> DEFINE vs == WindowUpTo(release, chain, h)
           cur == BackTo(current_fork_index, StartVersion(h))
<1>1. vs \in Seq(Nat) /\ Len(vs) >= 1
  BY WindowType DEF TypeOK
<1>2. cur \in 1..release
  <2>1. current_fork_index \in 1..Len(Table)
    BY TableFacts DEF TypeOK
  <2> QED
    BY <2>1, BackToType, TableFacts DEF TypeOK
<1>3. AtLeast(get_voted_fork_index(release, vs, cur, h + 1), cur) \in 1..release
  <2>1. h + 1 \in Nat /\ release \in 1..Len(Table)
    BY DEF TypeOK
  <2> HIDE DEF vs, cur
  <2> QED
    BY <1>2, <2>1, VotedType
<1> QED
  BY <1>1, <1>3 DEF RebuildAt

\* A first start has the types.
LEMMA TypeInit == Init => TypeOK
<1> SUFFICES ASSUME Init PROVE TypeOK
  OBVIOUS
<1>1. 1 \in 1..Len(Table) /\ Table[1].version = 1 /\ 1 \in Version
  BY TableFacts
<1>2. Genesis \in Block
  BY <1>1, BoundsAssumption DEF Genesis, Block
<1>3. release \in 1..Len(Table) /\ 1 \in 1..release
  BY DEF Init
<1>4. current_fork_index \in 1..release
  BY <1>3, VotedType DEF Init
<1>5. /\ <<Genesis>> \in Seq(Block) /\ Len(<<Genesis>>) = 1
      /\ <<1>> \in Seq(Version) /\ <<1>> \in Seq(Nat) /\ Len(<<1>>) = 1
  BY <1>1, <1>2
<1>6. /\ chain \in Seq(Block) /\ Len(chain) = 1
      /\ hf_versions \in Seq(Version) /\ Len(hf_versions) = 1
      /\ versions \in Seq(Nat) /\ Len(versions) = 1
  BY <1>5 DEF Init
<1>7. phase = "run" /\ popped \in BOOLEAN /\ replay = 1
  BY ZenonT(60) DEF Init
<1> QED
  BY <1>3, <1>4, <1>6, <1>7 DEF TypeOK

\* Every operation keeps the types.
LEMMA TypeNext == TypeOK /\ [Next]_vars => TypeOK'
<1> SUFFICES ASSUME TypeOK, [Next]_vars PROVE TypeOK'
  OBVIOUS
<1>0. /\ chain \in Seq(Block) /\ Len(chain) \in Nat /\ Len(chain) >= 1
      /\ \A h \in 1..Len(chain) : chain[h] \in Block
      /\ hf_versions \in Seq(Version) /\ Len(hf_versions) \in Nat /\ Len(hf_versions) >= Len(chain)
      /\ versions \in Seq(Nat) /\ Len(versions) \in Nat /\ Len(versions) >= 1
      /\ release \in 1..Len(Table) /\ current_fork_index \in 1..release
  BY DEF TypeOK
<1>1. ASSUME NEW b \in Block, AddBlock(b) PROVE TypeOK'
  <2>1. /\ hf_versions' \in Seq(Version) /\ Len(hf_versions') >= Len(chain) + 1
        /\ versions' \in Seq(Nat) /\ Len(versions') >= 1
        /\ current_fork_index' \in 1..release
    BY <1>0, <1>1, AddType DEF AddBlock
  <2>2. chain' \in Seq(Block) /\ Len(chain') = Len(chain) + 1
    BY <1>0, <1>1, AppendIs DEF AddBlock
  <2> QED
    BY <1>0, <1>1, <2>1, <2>2 DEF AddBlock, TypeOK
<1>2. ASSUME PopBlock PROVE TypeOK'
  <2> DEFINE h == Len(chain) - 1
  <2>1. chain' = SubSeq(chain, 1, h) /\ h \in Nat /\ h >= 1
    BY <1>0, <1>2 DEF PopBlock
  <2>2. chain' \in Seq(Block) /\ Len(chain') = h
    BY <1>0, <2>1, SubSeqIs
  <2>3. hf_versions[h + 1] \in Nat
    <3>1. h + 1 \in 1..Len(hf_versions)
      BY <1>0, <2>1
    <3>2. hf_versions[h + 1] \in Version
      BY <1>0, <3>1, ElementIs
    <3> QED
      BY <3>2, TableFacts, ZenonT(60)
  <2>4. /\ SubSeq(versions, 1, Len(versions) - 1) \in Seq(Nat)
        /\ Len(SubSeq(versions, 1, Len(versions) - 1)) = Len(versions) - 1
    BY <1>0, FrontIs
  <2>5. <<hf_versions[h + 1]>> \in Seq(Nat) /\ Len(<<hf_versions[h + 1]>>) = 1
    BY <2>3
  <2>6. versions' = <<hf_versions[h + 1]>> \o SubSeq(versions, 1, Len(versions) - 1)
    BY <1>2 DEF PopBlock, PoppedWindow
  <2>7. versions' \in Seq(Nat) /\ Len(versions') >= 1
    <3> DEFINE front == <<hf_versions[h + 1]>>
               rest == SubSeq(versions, 1, Len(versions) - 1)
    <3> HIDE DEF front, rest
    <3> USE DEF h
    <3>1. front \in Seq(Nat) /\ Len(front) = 1 /\ rest \in Seq(Nat) /\ Len(rest) = Len(versions) - 1
      BY <2>4, <2>5 DEF front, rest
    <3>2. versions' = front \o rest
      BY <2>6 DEF front, rest
    <3> QED
      BY <1>0, <3>1, <3>2, ConcatIs
  <2>8. current_fork_index' \in 1..release
    BY <1>0, <1>2, <2>1, IdealIs DEF PopBlock
  <2> QED
    BY <1>0, <1>2, <2>1, <2>2, <2>7, <2>8 DEF PopBlock, TypeOK
<1>3. ASSUME NEW c \in 1..Len(chain), Reorganize(c) PROVE TypeOK'
  <2>1. c - 1 \in 0..(Len(chain) - 1) /\ RebuildAt(c - 1, chain)
    BY <1>0, <1>3 DEF Reorganize
  <2>2. /\ versions' \in Seq(Nat) /\ Len(versions') >= 1
        /\ current_fork_index' \in 1..release
    BY <2>1, RebuildType
  <2> QED
    BY <1>0, <1>3, <2>2 DEF Reorganize, TypeOK
<1>4. ASSUME ReplayBlock PROVE TypeOK'
  <2>1. replay \in Nat /\ replay < Len(chain)
    BY <1>4 DEF ReplayBlock, TypeOK
  <2>2. chain[replay + 1] \in Block
    BY <1>0, <2>1
  <2>3. /\ hf_versions' \in Seq(Version) /\ Len(hf_versions') >= Len(hf_versions)
        /\ versions' \in Seq(Nat) /\ Len(versions') >= 1
        /\ current_fork_index' \in 1..release
    BY <1>0, <1>4, <2>1, <2>2, AddType DEF ReplayBlock
  <2> QED
    BY <1>0, <1>4, <2>1, <2>3 DEF ReplayBlock, TypeOK
<1>5. ASSUME NEW r \in 1..Len(Table), Restart(r) PROVE TypeOK'
  <2> DEFINE top == Len(chain) - 1
             vs == WindowUpTo(r, chain, top)
             cur == StoredIndex(r, hf_versions[top + 1])
  <2>1. vs \in Seq(Nat) /\ Len(vs) >= 1
    BY <1>0, WindowType
  <2>2. cur \in 1..r
    BY StoredType
  <2>3. AtLeast(get_voted_fork_index(r, vs, cur, top + 1), cur) \in 1..r
    <3>1. top + 1 \in Nat
      BY <1>0
    <3> HIDE DEF top, vs, cur
    <3> QED
      BY <2>2, <3>1, VotedType
  <2>4. /\ release' = r /\ versions' = vs /\ phase' = "popping" /\ popped' = FALSE
        /\ current_fork_index' = AtLeast(get_voted_fork_index(r, vs, cur, top + 1), cur)
        /\ UNCHANGED <<chain, hf_versions, replay>>
    BY <1>5 DEF Restart
  <2> HIDE DEF top, vs, cur
  <2> QED
    BY <1>0, <2>1, <2>3, <2>4, ZenonT(60) DEF TypeOK
<1>6. ASSUME StartupPop PROVE TypeOK'
  <2>1. Len(chain) > 1
    <3>1. get_ideal_index(release, 0) = 1
      BY <1>0, IdealOfGenesis
    <3>2. ASSUME ~ (Len(chain) > 1) PROVE TopAgrees
      <4>1. Len(chain) = 1
        <5>1. \A n \in Nat : n >= 1 /\ ~ (n > 1) => n = 1
          OBVIOUS
        <5> QED
          BY <1>0, <3>2, <5>1, ZenonT(60)
      <4> QED
        BY <3>1, <4>1, TableFacts DEF TopAgrees
    <3>3. ~ TopAgrees
      BY <1>6 DEF StartupPop
    <3> QED
      BY <3>2, <3>3, ZenonT(60)
  <2>2. chain' \in Seq(Block) /\ Len(chain') = Len(chain) - 1
    <3>1. chain' = SubSeq(chain, 1, Len(chain) - 1)
      BY <1>6 DEF StartupPop
    <3> QED
      BY <1>0, <2>1, <3>1, SubSeqIs
  <2> QED
    BY <1>0, <1>6, <2>1, <2>2 DEF StartupPop, TypeOK
<1>7. ASSUME StartupDone PROVE TypeOK'
  <2>1. /\ versions' \in Seq(Nat) /\ Len(versions') >= 1
        /\ current_fork_index' \in 1..release
    <3>1. CASE popped
      <4>1. Len(chain) - 1 \in 0..(Len(chain) - 1) /\ RebuildAt(Len(chain) - 1, chain)
        BY <1>0, <1>7, <3>1 DEF StartupDone
      <4> QED
        BY <4>1, RebuildType
    <3>2. CASE ~ popped
      BY <1>0, <1>7, <3>2 DEF StartupDone
    <3> QED
      BY <3>1, <3>2
  <2> QED
    BY <1>0, <1>7, <2>1 DEF StartupDone, TypeOK
<1>8. CASE UNCHANGED vars
  BY <1>8 DEF TypeOK, vars
<1> QED
  BY <1>1, <1>2, <1>3, <1>4, <1>5, <1>6, <1>7, <1>8 DEF Next

\* Every state of the tracker is well typed: in particular the fork index always
\* names an entry of the running release's table, and every block has a stored version.
THEOREM TypeCorrect == Spec => []TypeOK
BY TypeInit, TypeNext, PTL DEF Spec
-----------------------------------------------------------------------------
(***************************************************************************)
(* Without voting, the fork that the votes select is the scheduled one,    *)
(* from any index that is not past it.                                     *)
(***************************************************************************)
LEMMA VotedIsIdeal ==
  ASSUME NoVoting, NEW r \in 1..Len(Table), NEW vs \in Seq(Nat), NEW h \in Nat,
         NEW cur \in 1..r, cur <= get_ideal_index(r, h)
  PROVE  AtLeast(get_voted_fork_index(r, vs, cur, h), cur) = get_ideal_index(r, h)
<1> DEFINE ready == {n \in 1..r : h >= Table[n].height /\ Votes(r, vs, n) >= Threshold(n)}
           ideal == get_ideal_index(r, h)
<1>1. \A n \in 1..r : Votes(r, vs, n) \in Nat
  <2> TAKE n \in 1..r
  <2> DEFINE S == {i \in 1..Len(vs) : \E m \in n..r : vs[i] = Table[m].version}
  <2>1. IsFiniteSet(1..Len(vs)) /\ S \in SUBSET (1..Len(vs))
    BY IntervalCount
  <2>2. Cardinality(S) \in Nat
    <3> HIDE DEF S
    <3> QED
      BY <2>1, CardinalityIs, ZenonT(60)
  <2> QED
    BY <2>2 DEF Votes
<1>2. \A n \in 1..r : Threshold(n) = 0
  <2> TAKE n \in 1..r
  <2>1. Table[n].threshold = 0
    BY TableFacts DEF NoVoting
  <2>2. WindowSize * 0 + 99 = 99
    BY BoundsAssumption
  <2>3. 99 \div 100 = 0
    OBVIOUS
  <2> QED
    BY <2>1, <2>2, <2>3 DEF Threshold
<1>3. ready = {n \in 1..r : h >= Table[n].height}
  BY <1>1, <1>2
<1>4. /\ ideal \in 1..r
      /\ ideal = 1 \/ h >= Table[ideal].height
      /\ \A n \in 1..r : h >= Table[n].height => n <= ideal
  BY IdealIs, ZenonT(60)
<1>5. CASE ready = {}
  <2>1. ideal = 1
    BY <1>3, <1>4, <1>5
  <2>2. cur = 1
    BY <2>1
  <2>3. get_voted_fork_index(r, vs, cur, h) = cur
    BY <1>5 DEF get_voted_fork_index
  <2> QED
    BY <2>1, <2>2, <2>3 DEF AtLeast
<1>6. CASE ready # {}
  <2>1. r \in Nat /\ ready \subseteq 1..r
    BY TableFacts
  <2>2. Max(ready) \in ready /\ \A m \in ready : m <= Max(ready)
    <3> HIDE DEF ready
    <3> QED
      BY <1>6, <2>1, LargestIsMax, ZenonT(60)
  <2>3. ideal \in ready
    <3>1. PICK n \in ready : TRUE
      BY <1>6
    <3>2. n \in 1..r /\ h >= Table[n].height /\ n <= ideal
      BY <1>3, <1>4, <3>1
    <3>3. h >= Table[ideal].height
      BY <1>4, <3>2
    <3> QED
      BY <1>3, <1>4, <3>3
  <2>4. Max(ready) \in 1..r /\ Max(ready) <= ideal
    BY <1>3, <1>4, <2>2
  <2>5. Max(ready) = ideal
    <3> HIDE DEF ready, ideal
    <3> QED
      BY <1>4, <2>2, <2>3, <2>4
  <2>6. get_voted_fork_index(r, vs, cur, h) = ideal
    BY <1>6, <2>5 DEF get_voted_fork_index
  <2> QED
    BY <1>4, <2>6 DEF AtLeast
<1> QED
  BY <1>5, <1>6

(***************************************************************************)
(* The steps that decide the fork: a block added at the height the index   *)
(* is scheduled for, and a rescan at a height whose block is as scheduled. *)
(***************************************************************************)
LEMMA AddFollowsSchedule ==
  ASSUME NoVoting, TypeOK, NEW b \in Block, NEW h \in Nat, h <= Len(hf_versions), Add(b, h),
         current_fork_index = get_ideal_index(release, h),
         do_check(current_fork_index, b)
  PROVE  /\ current_fork_index' = get_ideal_index(release, h + 1)
         /\ hf_versions'[h + 1] = Table[get_ideal_index(release, h)].version
         /\ \A i \in 1..Len(hf_versions) : i # h + 1 => hf_versions'[i] = hf_versions[i]
<1> DEFINE vs == PushVote(versions, get_effective_version(release, get_block_vote(b)))
<1>1. release \in 1..Len(Table) /\ current_fork_index \in 1..release /\ hf_versions \in Seq(Version)
  BY DEF TypeOK
<1>2. /\ hf_versions' = SetVersion(hf_versions, h, Table[current_fork_index].version)
      /\ current_fork_index' =
           AtLeast(get_voted_fork_index(release, vs, current_fork_index, h + 1), current_fork_index)
  BY DEF Add
<1>3. vs \in Seq(Nat)
  BY <1>1, VoteType, PushType DEF TypeOK
<1>4. current_fork_index <= get_ideal_index(release, h + 1)
  BY <1>1, IdealMonotone
<1>5. current_fork_index' = get_ideal_index(release, h + 1)
  <2> HIDE DEF vs
  <2>1. h + 1 \in Nat
    OBVIOUS
  <2> QED
    BY <1>1, <1>2, <1>3, <1>4, <2>1, VotedIsIdeal
<1>6. Table[current_fork_index].version \in Version
  BY <1>1, TableFacts
<1> QED
  BY <1>1, <1>2, <1>5, <1>6, SetVersionIs, ZenonT(60)

\* Without voting, a reorganisation from height h starts from the fork scheduled for h + 1.
LEMMA RebuildFollowsSchedule ==
  ASSUME NoVoting, TypeOK, NEW h \in 0..(Len(chain) - 1), RebuildAt(h, chain),
         hf_versions[h + 1] = Table[get_ideal_index(release, h)].version
  PROVE  current_fork_index' = get_ideal_index(release, h + 1)
<1> DEFINE vs == WindowUpTo(release, chain, h)
           v == StartVersion(h)
           cur == BackTo(current_fork_index, v)
           ideal == get_ideal_index(release, h)
<1>1. /\ release \in 1..Len(Table) /\ current_fork_index \in 1..release
      /\ chain \in Seq(Block) /\ h \in Nat /\ h + 1 \in Nat
  BY DEF TypeOK
<1>2. ideal \in 1..release
  BY <1>1, IdealIs
<1>3. v = Table[ideal].version
  BY <1>1, IdealOfGenesis, TableFacts DEF StartVersion, OriginalVersion
<1>4. cur \in 1..release /\ cur <= ideal
  <2>1. current_fork_index \in 1..Len(Table)
    BY <1>1, TableFacts
  <2>2. cur \in 1..current_fork_index /\ (cur = 1 \/ Table[cur].version <= v)
    BY <2>1, BackToType
  <2> HIDE DEF cur, v, ideal
  <2>3. cur \in 1..release /\ cur \in 1..Len(Table) /\ ideal \in 1..Len(Table)
    BY <1>1, <1>2, <2>1, <2>2, TableFacts
  <2>4. Table[cur].version <= Table[ideal].version => cur <= ideal
    BY <2>3, TableFacts
  <2> QED
    BY <1>2, <1>3, <2>2, <2>3, <2>4
<1>5. ideal <= get_ideal_index(release, h + 1) /\ get_ideal_index(release, h + 1) \in 1..release
  <2>1. release <= release /\ h <= h + 1
    BY <1>1
  <2>2. ideal <= get_ideal_index(release, h + 1)
    BY <1>1, <2>1, IdealMonotone
  <2> QED
    BY <1>1, <2>2, IdealIs
<1>6. cur <= get_ideal_index(release, h + 1)
  <2> HIDE DEF cur, ideal
  <2> QED
    BY <1>1, <1>2, <1>4, <1>5
<1>7. vs \in Seq(Nat)
  BY <1>1, WindowType
<1>8. current_fork_index' = AtLeast(get_voted_fork_index(release, vs, cur, h + 1), cur)
  BY DEF RebuildAt
<1> HIDE DEF vs, cur
<1> QED
  BY <1>1, <1>4, <1>6, <1>7, <1>8, VotedIsIdeal

\* Once the top block agrees with the running release's table, so do all the
\* blocks below it, if the chain follows an earlier release's table.
LEMMA TopAgreesThenAll ==
  ASSUME TypeOK, TopAgrees, NEW r \in 1..release, ScheduledBy(r)
  PROVE  ScheduledBy(release)
<1> DEFINE top == Len(chain) - 1
           ideal == get_ideal_index(release, top)
<1>1. /\ release \in 1..Len(Table) /\ r \in 1..Len(Table) /\ r <= release
      /\ top \in Nat
  BY TableFacts DEF TypeOK
<1>2. get_ideal_index(r, top) \in 1..r /\ ideal \in 1..release
  BY <1>1, IdealIs, ZenonT(60)
<1>3. ideal <= r
  <2>1. Table[ideal].version <= 1 \/ Table[ideal].version = chain[top + 1].major
    BY <1>1 DEF TopAgrees, TypeOK
  <2>2. chain[top + 1].major = Table[get_ideal_index(r, top)].version
    BY <1>1 DEF ScheduledBy
  <2>3. CASE Table[ideal].version <= 1
    <3>1. ideal <= 1
      <4> HIDE DEF ideal
      <4> QED
        BY <1>1, <1>2, <2>3, TableFacts
    <3> HIDE DEF ideal
    <3> QED
      BY <1>1, <1>2, <3>1
  <2>4. CASE Table[ideal].version = chain[top + 1].major
    <3>1. ideal = get_ideal_index(r, top)
      <4> HIDE DEF ideal, top
      <4>1. ideal \in 1..Len(Table) /\ get_ideal_index(r, top) \in 1..Len(Table)
        BY <1>1, <1>2, TableFacts
      <4> QED
        BY <2>2, <2>4, <4>1, TableFacts
    <3> QED
      BY <1>1, <1>2, <3>1
  <2> QED
    BY <2>1, <2>3, <2>4
<1>4. ASSUME NEW h \in 0..top PROVE get_ideal_index(r, h) = get_ideal_index(release, h)
  <2>1. h \in Nat /\ h <= top
    BY <1>1
  <2>2. get_ideal_index(release, h) <= ideal /\ get_ideal_index(release, h) \in 1..release
    <3>1. release <= release
      BY <1>1
    <3>2. get_ideal_index(release, h) <= ideal
      BY <1>1, <2>1, <3>1, IdealMonotone
    <3> QED
      BY <1>1, <2>1, <3>2, IdealIs
  <2>3. get_ideal_index(release, h) <= r
    BY <1>1, <1>2, <1>3, <2>2
  <2> QED
    BY <1>1, <2>1, <2>3, IdealExtend
<1> QED
  BY <1>4 DEF ScheduledBy

\* A first start follows the schedule.
LEMMA ScheduledInit ==
  ASSUME NoVoting
  PROVE  Init => ScheduledInv
<1> SUFFICES ASSUME Init PROVE ScheduledInv
  OBVIOUS
<1>1. TypeOK
  BY TypeInit
<1>2. /\ release \in 1..Len(Table) /\ 1 \in 1..release
      /\ chain = <<Genesis>> /\ hf_versions = <<1>> /\ phase = "run"
  BY DEF Init
<1>3. Len(chain) = 1 /\ chain[1] = Genesis /\ hf_versions[1] = 1
  BY <1>2
<1>4. Genesis.major = 1 /\ get_block_vote(Genesis) = 1
  BY DEF Genesis, get_block_vote
<1>5. ScheduledBy(release)
  BY <1>2, <1>3, <1>4, IdealOfGenesis, TableFacts DEF ScheduledBy
<1>6. current_fork_index = get_ideal_index(release, 1)
  <2>1. get_ideal_index(release, 1) \in 1..release
    BY <1>2, IdealIs
  <2>2. <<1>> \in Seq(Nat) /\ 1 <= get_ideal_index(release, 1)
    BY <1>2, <2>1
  <2>3. AtLeast(get_voted_fork_index(release, <<1>>, 1, 1), 1) = get_ideal_index(release, 1)
    BY <1>2, <2>2, VotedIsIdeal, ZenonT(60)
  <2> QED
    BY <2>3 DEF Init
<1>7. \A h \in 0..(Len(chain) - 1) : /\ hf_versions[h + 1] = chain[h + 1].major
                                     /\ get_block_vote(chain[h + 1]) >= chain[h + 1].major
  BY <1>3, <1>4
<1>8. \E r \in 1..release : ScheduledBy(r)
  BY <1>2, <1>5
<1> QED
  BY <1>1, <1>2, <1>3, <1>5, <1>6, <1>7, <1>8 DEF ScheduledInv

\* Without voting, every operation keeps the chain on the schedule.
LEMMA ScheduledNext ==
  ASSUME NoVoting, ScheduledInv, [Next]_vars
  PROVE  ScheduledInv'
<1> DEFINE Blocks == \A h \in 0..(Len(chain) - 1) :
                        /\ hf_versions[h + 1] = chain[h + 1].major
                        /\ get_block_vote(chain[h + 1]) >= chain[h + 1].major
<1>0. TypeOK /\ Blocks
  BY DEF ScheduledInv
<1>a. /\ chain \in Seq(Block) /\ Len(chain) \in Nat /\ Len(chain) >= 1
      /\ hf_versions \in Seq(Version) /\ Len(hf_versions) \in Nat /\ Len(hf_versions) >= Len(chain)
      /\ release \in 1..Len(Table) /\ release \in Nat /\ current_fork_index \in 1..release
      /\ release \in 1..release
  BY <1>0, TableFacts DEF TypeOK
<1>b. TypeOK'
  BY <1>0, TypeNext
<1>1. ASSUME NEW b \in Block, AddBlock(b) PROVE ScheduledInv'
  <2> DEFINE H == Len(chain)
  <2>1. /\ phase = "run" /\ phase' = "run" /\ release' = release
        /\ do_check(current_fork_index, b) /\ chain' = Append(chain, b) /\ Add(b, H)
    BY <1>1 DEF AddBlock
  <2>2. current_fork_index = get_ideal_index(release, H) /\ ScheduledBy(release)
    BY <2>1 DEF ScheduledInv
  <2>3. /\ current_fork_index' = get_ideal_index(release, H + 1)
        /\ hf_versions'[H + 1] = Table[get_ideal_index(release, H)].version
        /\ \A i \in 1..Len(hf_versions) : i # H + 1 => hf_versions'[i] = hf_versions[i]
    BY <1>0, <1>a, <2>1, <2>2, AddFollowsSchedule
  <2>4. /\ Len(chain') = H + 1 /\ chain'[H + 1] = b
        /\ \A i \in 1..H : chain'[i] = chain[i]
    BY <1>a, <2>1, AppendIs
  <2>5. b.major = Table[get_ideal_index(release, H)].version /\ get_block_vote(b) >= b.major
    BY <2>1, <2>2 DEF do_check
  <2>6. ASSUME NEW h \in 0..(Len(chain') - 1)
        PROVE  /\ hf_versions'[h + 1] = chain'[h + 1].major
               /\ get_block_vote(chain'[h + 1]) >= chain'[h + 1].major
               /\ chain'[h + 1].major = Table[get_ideal_index(release, h)].version
    <3>1. CASE h = H
      BY <2>3, <2>4, <2>5, <3>1
    <3>2. CASE h # H
      <4>1. h \in 0..(H - 1) /\ h + 1 \in 1..H /\ h + 1 \in 1..Len(hf_versions) /\ h + 1 # H + 1
        BY <1>a, <2>4, <3>2
      <4>2. hf_versions'[h + 1] = hf_versions[h + 1] /\ chain'[h + 1] = chain[h + 1]
        BY <2>3, <2>4, <4>1
      <4> QED
        BY <1>0, <2>2, <4>1, <4>2 DEF ScheduledBy
    <3> QED
      BY <3>1, <3>2
  <2>7. (ScheduledBy(release))'
    BY <2>1, <2>6 DEF ScheduledBy
  <2> QED
    BY <1>a, <1>b, <2>1, <2>3, <2>4, <2>6, <2>7 DEF ScheduledInv
<1>2. ASSUME PopBlock PROVE ScheduledInv'
  <2> DEFINE H == Len(chain) - 1
  <2>1. /\ phase = "run" /\ phase' = "run" /\ release' = release /\ hf_versions' = hf_versions
        /\ chain' = SubSeq(chain, 1, H) /\ current_fork_index' = get_ideal_index(release, H)
    BY <1>2 DEF PopBlock
  <2>2. ScheduledBy(release)
    BY <2>1 DEF ScheduledInv
  <2>3. Len(chain') = H /\ \A i \in 1..H : chain'[i] = chain[i]
    BY <1>a, <2>1, FrontIs
  <2>4. ASSUME NEW h \in 0..(Len(chain') - 1)
        PROVE  /\ hf_versions'[h + 1] = chain'[h + 1].major
               /\ get_block_vote(chain'[h + 1]) >= chain'[h + 1].major
               /\ chain'[h + 1].major = Table[get_ideal_index(release, h)].version
    <3>1. h \in 0..(Len(chain) - 1) /\ h + 1 \in 1..H
      BY <1>a, <2>3
    <3> QED
      BY <1>0, <2>1, <2>2, <2>3, <3>1 DEF ScheduledBy
  <2>5. (ScheduledBy(release))'
    BY <2>1, <2>4 DEF ScheduledBy
  <2> QED
    BY <1>a, <1>b, <2>1, <2>3, <2>4, <2>5 DEF ScheduledInv
<1>3. ASSUME NEW c \in 1..Len(chain), Reorganize(c) PROVE ScheduledInv'
  <2>1. /\ phase = "run" /\ RebuildAt(c - 1, chain) /\ replay' = c
        /\ phase' = IF c = Len(chain) THEN "run" ELSE "replay"
        /\ UNCHANGED <<release, chain, hf_versions, popped>>
    BY <1>3 DEF Reorganize
  <2>2. ScheduledBy(release) /\ c - 1 \in 0..(Len(chain) - 1) /\ (c - 1) + 1 = c
    BY <1>a, <2>1 DEF ScheduledInv
  <2>3. hf_versions[(c - 1) + 1] = Table[get_ideal_index(release, c - 1)].version
    BY <1>0, <2>2 DEF ScheduledBy
  <2>4. current_fork_index' = get_ideal_index(release, c)
    BY <1>0, <2>1, <2>2, <2>3, RebuildFollowsSchedule
  <2>5. (ScheduledBy(release))' /\ Blocks'
    BY <1>0, <2>1, <2>2 DEF ScheduledBy
  <2> QED
    BY <1>a, <1>b, <2>1, <2>4, <2>5 DEF ScheduledInv
<1>4. ASSUME ReplayBlock PROVE ScheduledInv'
  <2>1. /\ phase = "replay" /\ Add(chain[replay + 1], replay) /\ replay' = replay + 1
        /\ phase' = IF replay + 1 = Len(chain) THEN "run" ELSE "replay"
        /\ UNCHANGED <<release, chain, popped>>
    BY <1>4 DEF ReplayBlock
  <2>2. /\ ScheduledBy(release) /\ current_fork_index = get_ideal_index(release, replay)
        /\ replay \in Nat /\ replay < Len(chain)
    BY <1>0, <2>1 DEF ScheduledInv, TypeOK
  <2>3. /\ replay \in 0..(Len(chain) - 1) /\ replay + 1 \in 1..Len(chain)
        /\ replay <= Len(hf_versions)
    BY <1>a, <2>2
  <2>4. /\ chain[replay + 1] \in Block
        /\ chain[replay + 1].major = Table[get_ideal_index(release, replay)].version
        /\ get_block_vote(chain[replay + 1]) >= chain[replay + 1].major
        /\ hf_versions[replay + 1] = chain[replay + 1].major
    BY <1>0, <1>a, <2>2, <2>3, ElementIs DEF ScheduledBy
  <2>5. do_check(current_fork_index, chain[replay + 1])
    BY <2>2, <2>4 DEF do_check
  <2>6. /\ current_fork_index' = get_ideal_index(release, replay + 1)
        /\ hf_versions'[replay + 1] = Table[get_ideal_index(release, replay)].version
        /\ \A i \in 1..Len(hf_versions) : i # replay + 1 => hf_versions'[i] = hf_versions[i]
    BY <1>0, <2>1, <2>2, <2>3, <2>4, <2>5, AddFollowsSchedule
  <2>7. ASSUME NEW h \in 0..(Len(chain) - 1) PROVE hf_versions'[h + 1] = hf_versions[h + 1]
    <3>1. h + 1 \in 1..Len(hf_versions)
      BY <1>a
    <3> QED
      BY <2>4, <2>6, <3>1
  <2>8. (ScheduledBy(release))' /\ Blocks'
    BY <1>0, <2>1, <2>2, <2>7 DEF ScheduledBy
  <2> QED
    BY <1>a, <1>b, <2>1, <2>6, <2>8, ZenonT(60) DEF ScheduledInv
<1>5. ASSUME NEW r \in 1..Len(Table), Restart(r) PROVE ScheduledInv'
  <2> DEFINE top == Len(chain) - 1
             vs == WindowUpTo(r, chain, top)
             cur == StoredIndex(r, hf_versions[top + 1])
  <2>1. /\ r \in release..Len(Table) /\ release' = r /\ phase' = "popping" /\ popped' = FALSE
        /\ current_fork_index' = AtLeast(get_voted_fork_index(r, vs, cur, top + 1), cur)
        /\ UNCHANGED <<chain, hf_versions, replay>>
    BY <1>5 DEF Restart
  <2>2. PICK q \in 1..release : ScheduledBy(q)
    BY DEF ScheduledInv
  <2>3. /\ q \in 1..Len(Table) /\ q \in 1..r /\ q <= r /\ top \in Nat
        /\ top \in 0..(Len(chain) - 1) /\ top + 1 = Len(chain) /\ top <= top + 1
    BY <1>a, <2>1, TableFacts
  <2>4. hf_versions[top + 1] = Table[get_ideal_index(q, top)].version
    BY <1>0, <2>2, <2>3, ZenonT(60) DEF ScheduledBy
  <2>5. cur = get_ideal_index(q, top) /\ cur \in 1..r
    <3>1. get_ideal_index(q, top) \in 1..q
      BY <2>3, IdealIs, ZenonT(60)
    <3>2. get_ideal_index(q, top) \in 1..r
      BY <2>3, <3>1
    <3> QED
      BY <2>4, <3>2, StoredType
  <2>6. cur <= get_ideal_index(r, top + 1)
    <3>1. get_ideal_index(q, top) <= get_ideal_index(r, top + 1)
      BY <1>a, <2>3, IdealMonotone
    <3> QED
      BY <2>5, <3>1
  <2>7. vs \in Seq(Nat)
    BY <1>a, <2>3, WindowType
  <2>8. current_fork_index' = get_ideal_index(r, Len(chain))
    <3>1. top + 1 \in Nat
      BY <2>3
    <3> HIDE DEF vs, cur, top
    <3>2. AtLeast(get_voted_fork_index(r, vs, cur, top + 1), cur) = get_ideal_index(r, top + 1)
      BY <2>5, <2>6, <2>7, <3>1, VotedIsIdeal
    <3> QED
      BY <2>1, <2>3, <3>2
  <2>9. Blocks' /\ (\E s \in 1..release : ScheduledBy(s))'
    <3>1. q \in 1..release' /\ ScheduledBy(q)'
      BY <2>1, <2>2, <2>3 DEF ScheduledBy
    <3>2. Blocks'
      BY <1>0, <2>1
    <3> QED
      BY <3>1, <3>2
  <2> QED
    BY <1>b, <2>1, <2>8, <2>9 DEF ScheduledInv
<1>6. ASSUME StartupPop PROVE ScheduledInv'
  <2> DEFINE H == Len(chain) - 1
  <2>1. /\ phase' = "popping" /\ release' = release /\ hf_versions' = hf_versions
        /\ chain' = SubSeq(chain, 1, H) /\ popped' = TRUE
    BY <1>6 DEF StartupPop
  <2>2. PICK q \in 1..release : ScheduledBy(q)
    BY DEF ScheduledInv
  <2>3. Len(chain') = H /\ \A i \in 1..H : chain'[i] = chain[i]
    BY <1>a, <2>1, FrontIs
  <2>4. ASSUME NEW h \in 0..(Len(chain') - 1)
        PROVE  /\ hf_versions'[h + 1] = chain'[h + 1].major
               /\ get_block_vote(chain'[h + 1]) >= chain'[h + 1].major
               /\ chain'[h + 1].major = Table[get_ideal_index(q, h)].version
    <3>1. h \in 0..(Len(chain) - 1) /\ h + 1 \in 1..H
      BY <1>a, <2>3
    <3> QED
      BY <1>0, <2>1, <2>2, <2>3, <3>1, ZenonT(60) DEF ScheduledBy
  <2>5. ScheduledBy(q)' /\ Blocks'
    BY <2>4 DEF ScheduledBy
  <2>6. (\E s \in 1..release : ScheduledBy(s))'
    BY <2>1, <2>2, <2>5
  <2> QED
    BY <1>b, <2>1, <2>5, <2>6 DEF ScheduledInv
<1>7. ASSUME StartupDone PROVE ScheduledInv'
  <2>1. /\ phase = "popping" /\ TopAgrees /\ phase' = "run"
        /\ UNCHANGED <<release, chain, hf_versions, popped, replay>>
    BY <1>7 DEF StartupDone
  <2>2. ScheduledBy(release)
    BY <1>0, <2>1, TopAgreesThenAll DEF ScheduledInv
  <2>3. current_fork_index' = get_ideal_index(release, Len(chain))
    <3>1. CASE popped
      <4> DEFINE top == Len(chain) - 1
      <4>1. RebuildAt(top, chain) /\ top \in 0..(Len(chain) - 1) /\ top + 1 = Len(chain)
        BY <1>a, <1>7, <3>1 DEF StartupDone
      <4>2. hf_versions[top + 1] = Table[get_ideal_index(release, top)].version
        BY <1>0, <2>2, <4>1 DEF ScheduledBy
      <4> HIDE DEF top
      <4> QED
        BY <1>0, <4>1, <4>2, RebuildFollowsSchedule
    <3>2. CASE ~ popped
      BY <1>7, <2>1, <3>2 DEF StartupDone, ScheduledInv
    <3> QED
      BY <3>1, <3>2
  <2>4. (ScheduledBy(release))' /\ Blocks'
    BY <1>0, <2>1, <2>2 DEF ScheduledBy
  <2> QED
    BY <1>a, <1>b, <2>1, <2>3, <2>4 DEF ScheduledInv
<1>8. CASE UNCHANGED vars
  BY <1>b, <1>8 DEF ScheduledInv, ScheduledBy, vars
<1> QED
  BY <1>1, <1>2, <1>3, <1>4, <1>5, <1>6, <1>7, <1>8 DEF Next

\* With tables decided by height alone, as all of hardforks.cpp's are, the version
\* HardFork::check demands of the next block is the scheduled one and every block
\* of the chain has its scheduled version, after any pops, rescans and upgrades.
THEOREM VersionsFollowSchedule ==
  ASSUME NoVoting
  PROVE  Spec => []VersionIsScheduled
<1>1. Init => ScheduledInv
  BY ScheduledInit
<1>2. ScheduledInv /\ [Next]_vars => ScheduledInv'
  BY ScheduledNext
<1>3. ScheduledInv => VersionIsScheduled
  BY DEF ScheduledInv, VersionIsScheduled
<1> QED
  BY <1>1, <1>2, <1>3, PTL DEF Spec
-----------------------------------------------------------------------------
(***************************************************************************)
(* Rescans with voting.  First what FromGenesis computes.                  *)
(***************************************************************************)
StepAt(r, c, h, before) ==
  AtLeast(get_voted_fork_index(r, WindowUpTo(r, c, h), before, h + 1), before)

LEMMA StepIs ==
  ASSUME NEW r \in 1..Len(Table), NEW c, NEW h \in Nat, NEW before \in 1..r
  PROVE  StepAt(r, c, h, before) \in 1..r /\ before <= StepAt(r, c, h, before)
<1> DEFINE voted == get_voted_fork_index(r, WindowUpTo(r, c, h), before, h + 1)
<1>1. AtLeast(voted, before) \in 1..r
  <2>1. h + 1 \in Nat
    OBVIOUS
  <2> QED
    BY <2>1, VotedType
<1>2. StepAt(r, c, h, before) = IF voted > before THEN voted ELSE before
  BY DEF StepAt, AtLeast
<1>3. CASE voted > before
  <2>1. voted \in 1..r
    BY <1>1, <1>3 DEF AtLeast
  <2> HIDE DEF voted
  <2> QED
    BY <1>2, <1>3, <2>1
<1>4. CASE ~ (voted > before)
  BY <1>2, <1>4
<1> QED
  BY <1>3, <1>4

LEMMA FromGenesisIs ==
  ASSUME NEW r \in 1..Len(Table), NEW c \in Seq(Block), Len(c) >= 1
  PROVE  LET F == FromGenesis(r, c)
         IN  \A h \in 0..(Len(c) - 1) :
                /\ F[h] \in 1..r
                /\ F[h] = StepAt(r, c, h, IF h = 0 THEN 1 ELSE F[h - 1])
                /\ h > 0 => F[h - 1] \in 1..r
<1> DEFINE n == Len(c) - 1
           V == 1..r
           Step(h, v) == StepAt(r, c, h, v)
           base == Step(0, 1)
           G == [i \in 1..n |-> [v \in V |-> Step(i, v)]]
           ForkNow(f) == [h \in 0..n |-> Step(h, IF h = 0 THEN 1 ELSE f[h - 1])]
           fork == CHOOSE f : f = ForkNow(f)
<1>1. n \in Nat /\ 1 \in V /\ base \in V /\ \A i \in 0..n, v \in V : Step(i, v) \in V
  <2>1. n \in Nat /\ 1 \in V
    BY TableFacts
  <2> QED
    BY <2>1, StepIs
<1>2. FromGenesis(r, c) = fork
  BY ZenonT(60) DEF FromGenesis, StepAt
<1> HIDE DEF n, V, Step
<1>3. G \in Steps(n, V)
  BY <1>1 DEF Steps
<1>4. PICK f : f \in [0..n -> V] /\ f[0] = base /\ \A i \in 1..n : f[i] = G[i][f[i - 1]]
  <2>1. \E f : Computes(f, n, V, base, G)
    <3> HIDE DEF G, base
    <3> QED
      BY <1>1, <1>3, RecursionExists, ZenonT(60)
  <2> QED
    BY <2>1, ZenonT(60) DEF Computes
<1>5. f = ForkNow(f)
  <2>1. ASSUME NEW i \in 1..n
        PROVE  f[i] = Step(i, f[i - 1])
    <3>1. f[i - 1] \in V
      BY <1>1, <1>4
    <3> QED
      BY <1>4, <3>1, ZenonT(60)
  <2>2. \A i \in 0..n : f[i] = Step(i, IF i = 0 THEN 1 ELSE f[i - 1])
    BY <1>1, <1>4, <2>1
  <2>3. f = [i \in 0..n |-> f[i]]
    BY <1>4
  <2> QED
    BY <2>2, <2>3, ZenonT(60)
<1>6. fork = ForkNow(fork)
  BY <1>5, ZenonT(60)
<1> HIDE DEF fork
<1>7. \A h \in 0..n : fork[h] = Step(h, IF h = 0 THEN 1 ELSE fork[h - 1])
  BY <1>6, ZenonT(60)
<1> DEFINE U == {k \in Nat : k <= n /\ fork[k] \notin V}
<1>8. U = {}
  <2>1. SUFFICES ASSUME U # {} PROVE FALSE
    OBVIOUS
  <2>2. PICK k \in U : \A y \in U : k <= y
    <3>1. U \subseteq Nat
      OBVIOUS
    <3> HIDE DEF U
    <3> QED
      BY <2>1, <3>1, LeastExists, ZenonT(60)
  <2>3. k # 0
    BY <1>1, <1>7, <2>2
  <2>4. k \in 0..n /\ k - 1 \in Nat /\ k - 1 <= n /\ k - 1 < k
    BY <1>1, <2>2, <2>3
  <2>5. fork[k - 1] \in V
    BY <2>2, <2>4
  <2>6. fork[k] \in V
    BY <1>1, <1>7, <2>3, <2>4, <2>5
  <2> QED
    BY <2>2, <2>6
<1>9. \A h \in 0..n : fork[h] \in V
  BY <1>1, <1>8
<1>10. ASSUME NEW h \in 0..n
       PROVE  /\ fork[h] \in V /\ (h > 0 => fork[h - 1] \in V)
              /\ fork[h] = Step(h, IF h = 0 THEN 1 ELSE fork[h - 1])
  BY <1>1, <1>7, <1>9
<1> QED
  BY <1>2, <1>10 DEF n, V, Step

\* A tracker fed from genesis never goes back to an earlier fork.
LEMMA FromGenesisIncreases ==
  ASSUME NEW r \in 1..Len(Table), NEW c \in Seq(Block), Len(c) >= 1,
         NEW g \in 0..(Len(c) - 1), NEW h \in 0..(Len(c) - 1), g <= h
  PROVE  FromGenesis(r, c)[g] <= FromGenesis(r, c)[h]
<1> DEFINE F == FromGenesis(r, c)
           n == Len(c) - 1
           U == {k \in Nat : k <= n /\ g <= k /\ ~ (F[g] <= F[k])}
<1>1. n \in Nat /\ g \in 0..n /\ h \in 0..n
  OBVIOUS
<1>2. \A k \in 0..n : F[k] \in 1..r
  BY FromGenesisIs
<1>3. \A k \in 1..n : F[k - 1] <= F[k]
  <2>1. SUFFICES ASSUME NEW k \in 1..n PROVE F[k - 1] <= F[k]
    OBVIOUS
  <2>2. k \in 0..n /\ k # 0 /\ k \in Nat /\ k > 0
    BY <1>1
  <2>3. F[k - 1] \in 1..r /\ F[k] = StepAt(r, c, k, F[k - 1])
    BY <2>2, FromGenesisIs
  <2> HIDE DEF F
  <2> QED
    BY <2>2, <2>3, StepIs
<1> HIDE DEF F, n
<1>4. U = {}
  <2>1. SUFFICES ASSUME U # {} PROVE FALSE
    OBVIOUS
  <2>2. PICK k \in U : \A y \in U : k <= y
    <3>1. U \subseteq Nat
      OBVIOUS
    <3> HIDE DEF U
    <3> QED
      BY <2>1, <3>1, LeastExists, ZenonT(60)
  <2>3. k \in 0..n /\ g <= k /\ ~ (F[g] <= F[k])
    BY <1>1, <2>2
  <2>4. k # g
    BY <1>1, <1>2, <2>3
  <2>5. k - 1 \in 0..n /\ g <= k - 1 /\ k - 1 \notin U /\ k \in 1..n
    BY <1>1, <2>2, <2>3, <2>4
  <2>6. F[g] <= F[k - 1]
    BY <1>1, <2>5
  <2>7. F[k - 1] <= F[k]
    BY <1>3, <2>5
  <2> QED
    BY <1>1, <1>2, <2>3, <2>5, <2>6, <2>7
<1> QED
  BY <1>1, <1>4 DEF F

\* The fork in force for height h of chain c.
ForkAt(r, c, h) == IF h = 0 THEN 1 ELSE FromGenesis(r, c)[h - 1]

LEMMA ForkAtIs ==
  ASSUME NEW r \in 1..Len(Table), NEW c \in Seq(Block), Len(c) >= 1
  PROVE  /\ ForkAt(r, c, 0) = 1
         /\ \A h \in 0..Len(c) : ForkAt(r, c, h) \in 1..r
         /\ \A h \in 0..(Len(c) - 1) : ForkAt(r, c, h + 1) = StepAt(r, c, h, ForkAt(r, c, h))
         /\ \A g, h \in 0..Len(c) : g <= h => ForkAt(r, c, g) <= ForkAt(r, c, h)
<1> DEFINE F == FromGenesis(r, c)
           n == Len(c) - 1
<1>0. n \in Nat /\ 1 \in 1..r
  BY TableFacts
<1>1. \A h \in 0..n : F[h] \in 1..r /\ F[h] = StepAt(r, c, h, IF h = 0 THEN 1 ELSE F[h - 1])
  BY FromGenesisIs
<1>2. \A g, h \in 0..n : g <= h => F[g] <= F[h]
  BY FromGenesisIncreases
<1>3. \A h : ForkAt(r, c, h) = IF h = 0 THEN 1 ELSE F[h - 1]
  BY DEF ForkAt
<1>4. Len(c) = n + 1
  BY <1>0
<1> HIDE DEF F, n
<1>5. ForkAt(r, c, 0) = 1
  BY <1>3
<1>6. \A h \in 0..Len(c) : ForkAt(r, c, h) \in 1..r
  BY <1>0, <1>1, <1>3, <1>4
<1>7. ASSUME NEW h \in 0..n PROVE ForkAt(r, c, h + 1) = StepAt(r, c, h, ForkAt(r, c, h))
  <2>1. ForkAt(r, c, h + 1) = F[h]
    BY <1>0, <1>3
  <2>2. ForkAt(r, c, h) = IF h = 0 THEN 1 ELSE F[h - 1]
    BY <1>3
  <2> QED
    BY <1>1, <2>1, <2>2
<1>8. ASSUME NEW g \in 0..Len(c), NEW h \in 0..Len(c), g <= h
      PROVE  ForkAt(r, c, g) <= ForkAt(r, c, h)
  <2>1. CASE g = 0
    <3>1. ForkAt(r, c, h) \in 1..r
      BY <1>6
    <3> QED
      BY <1>0, <1>5, <2>1, <3>1
  <2>2. CASE g # 0
    <3>1. g - 1 \in 0..n /\ h - 1 \in 0..n /\ g - 1 <= h - 1 /\ h # 0
      BY <1>0, <1>4, <1>8, <2>2
    <3>2. ForkAt(r, c, g) = F[g - 1] /\ ForkAt(r, c, h) = F[h - 1]
      BY <1>3, <2>2, <3>1
    <3> QED
      BY <1>2, <3>1, <3>2
  <2> QED
    BY <2>1, <2>2
<1> QED
  BY <1>5, <1>6, <1>7, <1>8 DEF n

\* What the rebuilt window holds.
LEMMA WindowIs ==
  ASSUME NEW r, NEW c, NEW h \in Nat
  PROVE  LET first == IF h >= WindowSize - 1 THEN h - (WindowSize - 1) ELSE 0
             vs == WindowUpTo(r, c, h)
         IN  /\ first \in 0..h
             /\ Len(vs) = h - first + 1
             /\ vs = [i \in 1..(h - first + 1) |->
                        get_effective_version(r, get_block_vote(c[first + i]))]
<1> DEFINE first == IF h >= WindowSize - 1 THEN h - (WindowSize - 1) ELSE 0
           vote(i) == get_effective_version(r, get_block_vote(c[first + i]))
<1>1. first \in 0..h /\ h - first + 1 \in Nat
  BY BoundsAssumption
<1>2. WindowUpTo(r, c, h) = [i \in 1..(h - first + 1) |-> vote(i)]
  BY DEF WindowUpTo
<1>3. Len([i \in 1..(h - first + 1) |-> vote(i)]) = h - first + 1
  <2> HIDE DEF first, vote
  <2> QED
    BY <1>1
<1> QED
  BY <1>1, <1>2, <1>3

\* The window up to a height does not depend on the blocks above it.
LEMMA WindowPrefix ==
  ASSUME NEW r, NEW c \in Seq(Block), NEW b, NEW h \in 0..(Len(c) - 1)
  PROVE  WindowUpTo(r, Append(c, b), h) = WindowUpTo(r, c, h)
<1> DEFINE first == IF h >= WindowSize - 1 THEN h - (WindowSize - 1) ELSE 0
           n == h - first + 1
           vote(d, i) == get_effective_version(r, get_block_vote(d[first + i]))
<1>1. h \in Nat /\ first \in 0..h /\ n \in Nat
  BY BoundsAssumption
<1>2. \A d : WindowUpTo(r, d, h) = [i \in 1..n |-> vote(d, i)]
  BY DEF WindowUpTo
<1>3. \A i \in 1..n : first + i \in 1..Len(c)
  <2> HIDE DEF first
  <2> QED
    BY <1>1
<1>4. \A i \in 1..n : Append(c, b)[first + i] = c[first + i]
  <2> HIDE DEF first, n
  <2>1. \A k \in 1..Len(c) : Append(c, b)[k] = c[k]
    OBVIOUS
  <2> QED
    BY <1>3, <2>1
<1>5. \A i \in 1..n : vote(Append(c, b), i) = vote(c, i)
  BY <1>4, ZenonT(60)
<1>6. [i \in 1..n |-> vote(Append(c, b), i)] = [i \in 1..n |-> vote(c, i)]
  <2> HIDE DEF n, vote
  <2> QED
    BY <1>5
<1> QED
  BY <1>2, <1>6, ZenonT(60)

\* Nor does the fork in force.
LEMMA ForkPrefix ==
  ASSUME NEW r \in 1..Len(Table), NEW c \in Seq(Block), Len(c) >= 1, NEW b \in Block,
         NEW h \in 0..Len(c)
  PROVE  ForkAt(r, Append(c, b), h) = ForkAt(r, c, h)
<1> DEFINE d == Append(c, b)
           U == {k \in Nat : k <= Len(c) /\ ForkAt(r, d, k) # ForkAt(r, c, k)}
<1>1. d \in Seq(Block) /\ Len(d) = Len(c) + 1 /\ Len(c) \in Nat
  BY AppendIs
<1>2. \A k \in 0..(Len(c) - 1) : WindowUpTo(r, d, k) = WindowUpTo(r, c, k)
  BY WindowPrefix
<1> HIDE DEF d
<1>3. U = {}
  <2>1. SUFFICES ASSUME U # {} PROVE FALSE
    OBVIOUS
  <2>2. PICK k \in U : \A y \in U : k <= y
    <3>1. U \subseteq Nat
      OBVIOUS
    <3> HIDE DEF U
    <3> QED
      BY <2>1, <3>1, LeastExists, ZenonT(60)
  <2>3. k # 0
    <3>1. ForkAt(r, d, 0) = 1 /\ ForkAt(r, c, 0) = 1
      BY DEF ForkAt
    <3> QED
      BY <2>2, <3>1
  <2> DEFINE j == k - 1
  <2>4. j \in 0..(Len(c) - 1) /\ j \in Nat /\ j <= Len(c) /\ j < k /\ j + 1 = k /\ j \in 0..(Len(d) - 1)
    BY <1>1, <2>2, <2>3
  <2>5. j \notin U
    BY <2>2, <2>4
  <2>6. ForkAt(r, d, j) = ForkAt(r, c, j)
    BY <2>4, <2>5
  <2> HIDE DEF j
  <2>7. ForkAt(r, c, j + 1) = StepAt(r, c, j, ForkAt(r, c, j))
    BY <2>4, ForkAtIs
  <2>8. ForkAt(r, d, j + 1) = StepAt(r, d, j, ForkAt(r, d, j))
    <3>1. Len(d) >= 1
      BY <1>1
    <3> QED
      BY <1>1, <2>4, <3>1, ForkAtIs
  <2>9. StepAt(r, d, j, ForkAt(r, c, j)) = StepAt(r, c, j, ForkAt(r, c, j))
    BY <1>2, <2>4 DEF StepAt
  <2> QED
    BY <2>2, <2>4, <2>6, <2>7, <2>8, <2>9
<1>4. h \in Nat /\ h <= Len(c)
  BY <1>1
<1> QED
  BY <1>3, <1>4 DEF d

\* One more vote moves the window up by one block.
LEMMA WindowPush ==
  ASSUME NEW r \in 1..Len(Table), NEW c \in Seq(Block), NEW h \in 1..(Len(c) - 1)
  PROVE  PushVote(WindowUpTo(r, c, h - 1), get_effective_version(r, get_block_vote(c[h + 1])))
           = WindowUpTo(r, c, h)
<1> DEFINE W == WindowSize
           vote(i) == get_effective_version(r, get_block_vote(c[i]))
           low == IF h - 1 >= W - 1 THEN h - 1 - (W - 1) ELSE 0
           high == IF h >= W - 1 THEN h - (W - 1) ELSE 0
           m == h - 1 - low + 1
           n == h - high + 1
           vs == WindowUpTo(r, c, h - 1)
           keep == IF Len(vs) >= W THEN W - 1 ELSE Len(vs)
           old == SubSeq(vs, Len(vs) - keep + 1, Len(vs))
<1>0. W \in Nat /\ W >= 1 /\ h \in Nat /\ h >= 1 /\ h - 1 \in Nat
  BY BoundsAssumption
<1>1. /\ low \in 0..(h - 1) /\ Len(vs) = m /\ m \in Nat
      /\ vs = [i \in 1..m |-> vote(low + i)]
  BY <1>0, WindowIs
<1>2. /\ high \in 0..h /\ n \in Nat
      /\ WindowUpTo(r, c, h) = [i \in 1..n |-> vote(high + i)]
  BY <1>0, WindowIs
<1>3. vs \in Seq(Nat)
  <2>1. h - 1 \in 0..(Len(c) - 1)
    BY <1>0
  <2> QED
    BY <2>1, WindowType
<1>4. keep \in 0..m /\ keep = n - 1 /\ low + (m - keep) = high /\ high + n = h + 1
  <2>1. keep = IF m >= W THEN W - 1 ELSE m
    BY <1>1
  <2> HIDE DEF W, vs, keep
  <2>2. CASE h >= W
    <3>1. low = h - W /\ high = h - (W - 1)
      BY <1>0, <2>2
    <3> HIDE DEF low, high
    <3>2. m = W /\ n = W
      BY <1>0, <3>1
    <3> HIDE DEF m, n
    <3> QED
      BY <1>0, <2>1, <3>1, <3>2
  <2>3. CASE h < W
    <3>1. low = 0 /\ high = 0
      BY <1>0, <2>3
    <3> HIDE DEF low, high
    <3>2. m = h /\ n = h + 1
      BY <1>0, <3>1
    <3> HIDE DEF m, n
    <3> QED
      BY <1>0, <2>1, <2>3, <3>1, <3>2
  <2> QED
    BY <1>0, <2>2, <2>3
<1>5. PushVote(vs, vote(h + 1)) = Append(old, vote(h + 1))
  BY DEF PushVote
<1> HIDE DEF W, vote, low, high, m, n, vs, keep
<1>6. old \in Seq(Nat) /\ Len(old) = keep /\ \A i \in 1..keep : old[i] = vs[m - keep + i]
  <2> DEFINE p == m - keep + 1
  <2>1. p \in 1..(m + 1) /\ p \in Int /\ m \in Int /\ keep \in Nat
    BY <1>1, <1>4
  <2>2. old = SubSeq(vs, p, m)
    BY <1>1
  <2>3. \A i \in p..m : vs[i] \in Nat
    <3>1. \A i \in p..m : i \in 1..Len(vs)
      BY <1>1, <2>1
    <3> QED
      BY <1>3, <3>1, ElementIs
  <2>4. m - p + 1 = keep /\ (p <= m \/ keep = 0) /\ \A i \in 1..keep : p + i - 1 = m - keep + i
    BY <1>1, <2>1
  <2> HIDE DEF p
  <2>5. /\ SubSeq(vs, p, m) \in Seq(Nat)
        /\ Len(SubSeq(vs, p, m)) = IF p <= m THEN m - p + 1 ELSE 0
        /\ \A i \in 1..(m - p + 1) : SubSeq(vs, p, m)[i] = vs[p + i - 1]
    BY <2>1, <2>3, SubSeqIs
  <2>6. Len(old) = keep
    BY <2>1, <2>2, <2>4, <2>5
  <2> QED
    BY <2>2, <2>4, <2>5, <2>6, ZenonT(60)
<1>7. ASSUME NEW i \in 1..keep PROVE old[i] = vote(high + i)
  <2>1. m - keep + i \in 1..m /\ low + (m - keep + i) = high + i
    BY <1>1, <1>2, <1>4
  <2>2. vs[m - keep + i] = vote(low + (m - keep + i))
    BY <1>1, <2>1
  <2> QED
    BY <1>6, <2>1, <2>2
<1>8. n - 1 \in Nat /\ Len(old) + 1 = n
  BY <1>1, <1>2, <1>4, <1>6
<1> HIDE DEF old
<1>9. Append(old, vote(h + 1)) = [i \in 1..n |-> vote(high + i)]
  <2>1. Append(old, vote(h + 1)) = [i \in 1..n |-> IF i = n THEN vote(h + 1) ELSE old[i]]
    BY <1>2, <1>6, <1>8
  <2>2. ASSUME NEW i \in 1..n
        PROVE  (IF i = n THEN vote(h + 1) ELSE old[i]) = vote(high + i)
    <3>1. CASE i = n
      BY <1>4, <3>1
    <3>2. CASE i # n
      <4>1. i \in 1..keep
        BY <1>2, <1>4, <3>2
      <4> QED
        BY <1>7, <3>2, <4>1
    <3> QED
      BY <3>1, <3>2
  <2> QED
    BY <2>1, <2>2, ZenonT(60)
<1> QED
  BY <1>2, <1>5, <1>9 DEF vs, vote

\* Walking back to a stored version finds its fork.
LEMMA BackToIs ==
  ASSUME NEW cur \in 1..Len(Table), NEW k \in 1..cur
  PROVE  BackTo(cur, Table[k].version) = k
<1> DEFINE S == {n \in 1..cur : n = 1 \/ Table[n].version <= Table[k].version}
<1>1. cur \in Nat /\ S \subseteq 1..cur /\ k \in S
  BY TableFacts
<1>2. \A n \in S : n <= k
  BY TableFacts
<1>3. Max(S) \in S /\ \A n \in S : n <= Max(S)
  <2> HIDE DEF S
  <2> QED
    BY <1>1, LargestIsMax, ZenonT(60)
<1>4. Max(S) <= k /\ k <= Max(S) /\ Max(S) \in 1..cur
  <2> HIDE DEF S
  <2> QED
    BY <1>1, <1>2, <1>3, ZenonT(60)
<1>5. BackTo(cur, Table[k].version) = Max(S)
  BY DEF BackTo
<1> QED
  BY <1>4, <1>5

\* Adding a block of chain c to a tracker that was fed with the ones below it.
LEMMA AddFollowsGenesis ==
  ASSUME NEW r \in 1..Len(Table), NEW c \in Seq(Block), NEW h \in 1..(Len(c) - 1),
         release = r, versions = WindowUpTo(r, c, h - 1), current_fork_index = ForkAt(r, c, h),
         do_check(ForkAt(r, c, h), c[h + 1]), Add(c[h + 1], h)
  PROVE  /\ hf_versions' = SetVersion(hf_versions, h, Table[ForkAt(r, c, h)].version)
         /\ versions' = WindowUpTo(r, c, h)
         /\ current_fork_index' = ForkAt(r, c, h + 1)
<1> DEFINE vs == PushVote(versions, get_effective_version(release, get_block_vote(c[h + 1])))
<1>1. /\ hf_versions' = SetVersion(hf_versions, h, Table[current_fork_index].version)
      /\ versions' = vs
      /\ current_fork_index' =
           AtLeast(get_voted_fork_index(release, vs, current_fork_index, h + 1), current_fork_index)
  BY DEF Add
<1>2. vs = WindowUpTo(r, c, h)
  BY WindowPush
<1>3. ForkAt(r, c, h + 1) = StepAt(r, c, h, ForkAt(r, c, h))
  <2>1. h \in 0..(Len(c) - 1) /\ Len(c) >= 1
    OBVIOUS
  <2> QED
    BY <2>1, ForkAtIs
<1> HIDE DEF vs
<1> QED
  BY <1>1, <1>2, <1>3 DEF StepAt
-----------------------------------------------------------------------------
(***************************************************************************)
(* RescanInv is inductive for a daemon that adds blocks and rescans.       *)
(***************************************************************************)
LEMMA ForkOfIs ==
  /\ \A h : ForkOf(h) = ForkAt(release, chain, h)
  /\ \A h : ForkOf(h)' = ForkAt(release', chain', h)
BY DEF ForkOf, ForkAt

LEMMA RescanInit == Init => RescanInv
<1> SUFFICES ASSUME Init PROVE RescanInv
  OBVIOUS
<1>1. TypeOK
  BY TypeInit
<1>2. /\ release \in 1..Len(Table) /\ chain = <<Genesis>> /\ hf_versions = <<1>> /\ versions = <<1>>
      /\ current_fork_index = AtLeast(get_voted_fork_index(release, <<1>>, 1, 1), 1)
      /\ phase = "run"
  BY DEF Init
<1>3. chain \in Seq(Block) /\ Len(chain) = 1 /\ chain[1] = Genesis
  BY <1>1, <1>2 DEF TypeOK
<1>4. get_block_vote(Genesis) = 1 /\ get_effective_version(release, 1) = 1
  <2>1. Table[release].version \in Nat \ {0}
    BY <1>2, TableFacts
  <2> QED
    BY <2>1 DEF get_block_vote, Genesis, get_effective_version
<1>5. WindowUpTo(release, chain, 0) = <<1>>
  <2> DEFINE first == IF 0 >= WindowSize - 1 THEN 0 - (WindowSize - 1) ELSE 0
             vote(i) == get_effective_version(release, get_block_vote(chain[first + i]))
  <2>1. WindowUpTo(release, chain, 0) = [i \in 1..(0 - first + 1) |-> vote(i)]
    BY DEF WindowUpTo
  <2>2. first = 0
    BY BoundsAssumption
  <2>3. vote(1) = 1
    BY <1>3, <1>4, <2>2
  <2>4. 1..(0 - first + 1) = {1}
    BY <2>2
  <2> HIDE DEF first, vote
  <2>5. WindowUpTo(release, chain, 0) = [i \in {1} |-> vote(i)]
    BY <2>1, <2>4, ZenonT(60)
  <2>6. [i \in {1} |-> vote(i)] = [i \in {1} |-> 1]
    BY <2>3
  <2>7. <<1>> = [i \in {1} |-> 1]
    OBVIOUS
  <2> QED
    BY <2>5, <2>6, <2>7, ZenonT(60)
<1>6. ForkOf(0) = 1 /\ ForkOf(1) = current_fork_index
  <2>1. ForkAt(release, chain, 0) = 1 /\ ForkAt(release, chain, 0 + 1) = StepAt(release, chain, 0, 1)
    <3>1. 0 \in 0..(Len(chain) - 1) /\ Len(chain) >= 1
      BY <1>3
    <3> QED
      BY <1>2, <1>3, <3>1, ForkAtIs, ZenonT(60)
  <2>2. StepAt(release, chain, 0, 1) = AtLeast(get_voted_fork_index(release, <<1>>, 1, 1), 1)
    BY <1>5 DEF StepAt
  <2> QED
    BY <1>2, <2>1, <2>2, ForkOfIs
<1>7. do_check(1, Genesis)
  BY <1>4, TableFacts DEF do_check, Genesis
<1>8. Len(hf_versions) = 1 /\ hf_versions[1] = 1
  BY <1>2
<1>9. \A h \in 0..(Len(chain) - 1) : /\ hf_versions[h + 1] = Table[ForkOf(h)].version
                                     /\ do_check(ForkOf(h), chain[h + 1])
  BY <1>3, <1>6, <1>7, <1>8, TableFacts
<1> QED
  BY <1>1, <1>2, <1>3, <1>5, <1>6, <1>8, <1>9 DEF RescanInv

LEMMA RescanNext == RescanInv /\ [AddOrRescan]_vars => RescanInv'
<1> SUFFICES ASSUME RescanInv, [AddOrRescan]_vars PROVE RescanInv'
  OBVIOUS
<1> DEFINE ForkNow(h) == ForkAt(release, chain, h)
           added == IF phase = "run" THEN Len(chain) ELSE replay
<1>1. TypeOK'
  <2>1. [Next]_vars
    BY DEF AddOrRescan, Next
  <2> QED
    BY <2>1, TypeNext DEF RescanInv
<1>2. /\ release \in 1..Len(Table) /\ chain \in Seq(Block) /\ Len(chain) \in Nat /\ Len(chain) >= 1
      /\ hf_versions \in Seq(Version) /\ Len(hf_versions) = Len(chain)
      /\ replay \in Nat /\ (phase = "replay" => replay < Len(chain))
  BY DEF RescanInv, TypeOK
<1>3. /\ \A h \in 0..(Len(chain) - 1) : /\ hf_versions[h + 1] = Table[ForkNow(h)].version
                                        /\ do_check(ForkNow(h), chain[h + 1])
      /\ phase \in {"run", "replay"}
  BY ForkOfIs DEF RescanInv
<1>4. /\ added \in 1..Len(chain)
      /\ versions = WindowUpTo(release, chain, added - 1)
      /\ current_fork_index = ForkNow(added)
  BY ForkOfIs DEF RescanInv
<1>5. /\ ForkNow(0) = 1
      /\ \A h \in 0..Len(chain) : ForkNow(h) \in 1..release
      /\ \A h \in 0..(Len(chain) - 1) : ForkNow(h + 1) = StepAt(release, chain, h, ForkNow(h))
      /\ \A g, h \in 0..Len(chain) : g <= h => ForkNow(g) <= ForkNow(h)
  BY <1>2, ForkAtIs
<1>6. ASSUME NEW b \in Block, AddBlock(b) PROVE RescanInv'
  <2> DEFINE h == Len(chain)
             d == Append(chain, b)
  <2>1. /\ phase = "run" /\ do_check(current_fork_index, b) /\ chain' = d /\ Add(b, h)
        /\ release' = release /\ phase' = phase
    BY <1>6 DEF AddBlock
  <2>2. d \in Seq(Block) /\ Len(d) = h + 1 /\ d[h + 1] = b /\ \A i \in 1..h : d[i] = chain[i]
    BY <1>2, AppendIs
  <2>3. \A k \in 0..h : ForkAt(release, d, k) = ForkNow(k)
    BY <1>2, ForkPrefix
  <2>4. added = h /\ current_fork_index = ForkAt(release, d, h)
    BY <1>2, <1>4, <2>1, <2>3
  <2>5. versions = WindowUpTo(release, d, h - 1)
    <3>1. h - 1 \in 0..(Len(chain) - 1)
      BY <1>2
    <3> QED
      BY <1>2, <1>4, <2>4, <3>1, WindowPrefix
  <2>6. h \in 1..(Len(d) - 1)
    BY <1>2, <2>2
  <2> HIDE DEF d
  <2>7. /\ hf_versions' = SetVersion(hf_versions, h, Table[ForkAt(release, d, h)].version)
        /\ versions' = WindowUpTo(release, d, h)
        /\ current_fork_index' = ForkAt(release, d, h + 1)
    BY <1>2, <2>1, <2>2, <2>4, <2>5, <2>6, AddFollowsGenesis, ZenonT(60)
  <2> DEFINE v == Table[ForkAt(release, d, h)].version
  <2>8. hf_versions' = Append(hf_versions, v)
    BY <1>2, <2>7 DEF SetVersion
  <2> HIDE DEF v
  <2>9. /\ Len(hf_versions') = h + 1 /\ hf_versions'[h + 1] = v
        /\ \A i \in 1..h : hf_versions'[i] = hf_versions[i]
    BY <1>2, <2>8
  <2>10. ASSUME NEW k \in 0..h
         PROVE  /\ hf_versions'[k + 1] = Table[ForkAt(release, d, k)].version
                /\ do_check(ForkAt(release, d, k), d[k + 1])
    <3>1. CASE k = h
      BY <2>1, <2>2, <2>4, <2>9, <3>1, ZenonT(60) DEF v
    <3>2. CASE k # h
      <4>1. k \in 0..(Len(chain) - 1) /\ k + 1 \in 1..h
        BY <1>2, <3>2
      <4>2. d[k + 1] = chain[k + 1] /\ hf_versions'[k + 1] = hf_versions[k + 1] /\ ForkAt(release, d, k) = ForkNow(k)
        BY <2>2, <2>3, <2>9, <4>1
      <4> QED
        BY <1>3, <4>1, <4>2
    <3> QED
      BY <3>1, <3>2
  <2>11. \A k : ForkOf(k)' = ForkAt(release, d, k)
    BY <2>1, ForkOfIs
  <2>12. Len(chain') = h + 1 /\ chain' = d /\ release' = release /\ phase' = "run" /\ h \in Nat
    BY <1>2, <2>1, <2>2
  <2> HIDE DEF h, ForkNow, added
  <2>13. \A k \in 0..(Len(chain') - 1) : /\ hf_versions'[k + 1] = Table[ForkOf(k)'].version
                                         /\ do_check(ForkOf(k)', chain'[k + 1])
    BY <2>10, <2>11, <2>12
  <2>14. Len(chain') \in 1..Len(chain') /\ Len(chain') - 1 = h
    BY <2>12
  <2>15. /\ versions' = WindowUpTo(release', chain', Len(chain') - 1)
         /\ current_fork_index' = ForkOf(Len(chain))'
    <3>1. current_fork_index' = ForkAt(release', chain', Len(chain'))
      BY <2>7, <2>12
    <3> QED
      BY <2>7, <2>12, <2>14, <3>1 DEF ForkOf, ForkAt
  <2> QED
    BY <1>1, <2>9, <2>12, <2>13, <2>14, <2>15 DEF RescanInv
<1>7. ASSUME UNCHANGED <<release, chain, hf_versions>>, phase' \in {"run", "replay"},
             NEW m \in 1..Len(chain), m = (IF phase = "run" THEN Len(chain) ELSE replay)',
             versions' = WindowUpTo(release, chain, m - 1), current_fork_index' = ForkNow(m)
      PROVE  RescanInv'
  <2>1. \A k : ForkOf(k)' = ForkNow(k)
    BY <1>7, ForkOfIs
  <2>2. ForkOf(IF phase = "run" THEN Len(chain) ELSE replay)' = ForkNow(m)
    BY <1>7 DEF ForkOf, ForkAt
  <2> HIDE DEF ForkNow, added
  <2> QED
    BY <1>1, <1>2, <1>3, <1>7, <2>1, <2>2 DEF RescanInv
<1>8. ASSUME NEW c \in 1..Len(chain), Reorganize(c) PROVE RescanInv'
  <2> DEFINE h == c - 1
             cur == BackTo(current_fork_index, StartVersion(h))
  <2>1. /\ phase = "run" /\ RebuildAt(h, chain) /\ replay' = c
        /\ phase' = IF c = Len(chain) THEN "run" ELSE "replay"
        /\ UNCHANGED <<release, chain, hf_versions, popped>>
    BY <1>8 DEF Reorganize
  <2>2. h \in 0..(Len(chain) - 1) /\ h \in 0..Len(chain) /\ Len(chain) \in 0..Len(chain) /\ h <= Len(chain)
    BY <1>2
  <2>3. current_fork_index = ForkNow(Len(chain))
    BY <1>4, <2>1
  <2>4. ForkNow(h) \in 1..current_fork_index /\ current_fork_index \in 1..Len(Table)
    <3> HIDE DEF ForkNow, h
    <3>1. /\ ForkNow(h) \in 1..release /\ ForkNow(Len(chain)) \in 1..release
          /\ ForkNow(h) <= ForkNow(Len(chain))
      BY <1>5, <2>2, ZenonT(60)
    <3> QED
      BY <1>2, <2>3, <3>1
  <2>5. StartVersion(h) = Table[ForkNow(h)].version
    BY <1>3, <1>5, <2>2, TableFacts DEF StartVersion, OriginalVersion
  <2>6. cur = ForkNow(h)
    BY <2>4, <2>5, BackToIs
  <2>7. /\ versions' = WindowUpTo(release, chain, h)
        /\ current_fork_index' = StepAt(release, chain, h, cur)
    BY <2>1 DEF RebuildAt, StepAt
  <2>8. current_fork_index' = ForkNow(h + 1)
    BY <1>5, <2>2, <2>6, <2>7
  <2>9. h + 1 = c /\ c = (IF phase = "run" THEN Len(chain) ELSE replay)' /\ phase' \in {"run", "replay"}
    BY <1>2, <2>1
  <2> QED
    BY <1>7, <2>1, <2>7, <2>8, <2>9
<1>9. ASSUME ReplayBlock PROVE RescanInv'
  <2> DEFINE h == replay
  <2>1. /\ phase = "replay" /\ Add(chain[h + 1], h) /\ replay' = h + 1
        /\ phase' = IF h + 1 = Len(chain) THEN "run" ELSE "replay"
        /\ UNCHANGED <<release, chain, popped>>
    BY <1>9 DEF ReplayBlock
  <2>2. added = h /\ h \in 1..(Len(chain) - 1) /\ h \in 0..(Len(chain) - 1)
    BY <1>2, <1>4, <2>1
  <2>3. /\ hf_versions' = SetVersion(hf_versions, h, Table[ForkNow(h)].version)
        /\ versions' = WindowUpTo(release, chain, h)
        /\ current_fork_index' = ForkNow(h + 1)
    BY <1>2, <1>3, <1>4, <2>1, <2>2, AddFollowsGenesis, ZenonT(60)
  <2>4. hf_versions' = hf_versions
    <3>1. SetVersion(hf_versions, h, Table[ForkNow(h)].version)
            = [hf_versions EXCEPT ![h + 1] = Table[ForkNow(h)].version]
      BY <1>2, <2>2 DEF SetVersion
    <3>2. hf_versions[h + 1] = Table[ForkNow(h)].version
      BY <1>3, <2>2
    <3> DEFINE v == Table[ForkNow(h)].version
    <3> HIDE DEF v
    <3>3. [hf_versions EXCEPT ![h + 1] = v] = hf_versions
      BY <1>2, <2>2, <3>2 DEF v
    <3> QED
      BY <2>3, <3>1, <3>3 DEF v
  <2>5. /\ h + 1 \in 1..Len(chain) /\ h + 1 = (IF phase = "run" THEN Len(chain) ELSE replay)'
        /\ phase' \in {"run", "replay"} /\ (h + 1) - 1 = h
    BY <1>2, <2>1, <2>2
  <2> QED
    BY <1>7, <2>1, <2>3, <2>4, <2>5
<1>10. CASE UNCHANGED vars
  <2>1. UNCHANGED <<release, chain, hf_versions, versions, current_fork_index, phase, replay>>
    BY <1>10 DEF vars
  <2>2. added = (IF phase = "run" THEN Len(chain) ELSE replay)'
    BY <2>1
  <2> QED
    BY <1>3, <1>4, <1>7, <2>1, <2>2
<1> QED
  BY <1>6, <1>8, <1>9, <1>10 DEF AddOrRescan

(***************************************************************************)
(* A daemon that adds blocks and rescans from any height, any number of    *)
(* times, with any thresholds: whenever no rescan is under way the window  *)
(* and the fork in force are those of a tracker that was fed with the same *)
(* blocks from genesis (HardFork::add, reorganize_from_block_height).      *)
(***************************************************************************)
THEOREM RescansAreTransparent == SpecNoPop => []RescanIsTransparent
<1>1. RescanInv => RescanIsTransparent
  <2> SUFFICES ASSUME RescanInv, phase = "run"
               PROVE  /\ versions = WindowUpTo(release, chain, Len(chain) - 1)
                      /\ current_fork_index = FromGenesis(release, chain)[Len(chain) - 1]
    BY DEF RescanIsTransparent
  <2>1. Len(chain) # 0
    BY DEF RescanInv, TypeOK
  <2> QED
    BY <2>1 DEF RescanInv, ForkOf
<1> QED
  BY <1>1, RescanInit, RescanNext, PTL, PTL DEF SpecNoPop

-----------------------------------------------------------------------------
(***************************************************************************)
(* How Blockchain::init fills the table (ForkTable).                       *)
(***************************************************************************)
Entry == [version : Nat, height : Nat, threshold : Nat, time : Nat]

\* The entry's shape, and the order, are kept together by every call of add_fork.
OrderedInv ==
  /\ table \in Seq(Entry)
  /\ handed \in 0..Len(table)
  /\ heights \in Seq(Entry)
  /\ OrderedHeights

LEMMA OrderedHolds == FillSpec => []OrderedInv
<1>1. FillInit => OrderedInv
  BY TablesAssumption DEF FillInit, OrderedInv, OrderedHeights, Entry
<1>2. OrderedInv /\ [FillNext]_fillVars => OrderedInv'
  <2> SUFFICES ASSUME OrderedInv, [FillNext]_fillVars PROVE OrderedInv'
    OBVIOUS
  <2>1. CASE UNCHANGED fillVars
    BY <2>1 DEF OrderedInv, OrderedHeights, fillVars
  <2>2. CASE add_fork
    <3> DEFINE e == table[handed + 1]
    <3>1. /\ table' = table /\ handed' = handed + 1 /\ handed' \in 0..Len(table)
          /\ e \in Entry /\ heights \in Seq(Entry) /\ Len(heights) \in Nat
      BY <2>2 DEF add_fork, OrderedInv
    <3>2. CASE ~ Accepts(heights, e)
      BY <2>2, <3>1, <3>2 DEF add_fork, OrderedInv, OrderedHeights
    <3>3. CASE Accepts(heights, e)
      <4> DEFINE L == Len(heights)
      <4> HIDE DEF e
      <4>1. heights' = Append(heights, e)
        BY <2>2, <3>3 DEF add_fork, e
      <4>2. /\ heights' \in Seq(Entry) /\ Len(heights') = L + 1 /\ heights'[L + 1] = e
            /\ \A i \in 1..L : heights'[i] = heights[i]
        BY <3>1, <4>1, AppendIs
      <4>3. \A i \in 1..L : heights[i] \in Entry
        BY <3>1
      <4>4. ASSUME NEW i \in 1..L
            PROVE  /\ heights[i].version < e.version
                   /\ heights[i].height < e.height
                   /\ heights[i].time < e.time
        <5>1. L \in 1..L /\ heights # <<>>
          BY <3>1
        <5>2. /\ heights[L].version < e.version
              /\ heights[L].height < e.height
              /\ heights[L].time < e.time
          BY <3>1, <3>3, <4>3, <5>1, ZenonT(60) DEF Accepts, Entry
        <5>3. i = L \/ /\ heights[i].version < heights[L].version
                       /\ heights[i].height < heights[L].height
                       /\ heights[i].time < heights[L].time
          BY <3>1, <5>1 DEF OrderedInv, OrderedHeights
        <5>4. ASSUME NEW x \in {heights[i], heights[L], e}
              PROVE  x.version \in Nat /\ x.height \in Nat /\ x.time \in Nat
          BY <3>1, <4>3, <5>1, ZenonT(60) DEF Entry
        <5>5. /\ heights[i].version \in Nat /\ heights[L].version \in Nat /\ e.version \in Nat
              /\ heights[i].height \in Nat /\ heights[L].height \in Nat /\ e.height \in Nat
              /\ heights[i].time \in Nat /\ heights[L].time \in Nat /\ e.time \in Nat
          BY <5>4
        <5>6. CASE i = L
          BY <5>2, <5>6
        <5>7. CASE /\ heights[i].version < heights[L].version
                   /\ heights[i].height < heights[L].height
                   /\ heights[i].time < heights[L].time
          <6>1. \A x, y, z \in Nat : x < y /\ y < z => x < z
            OBVIOUS
          <6> QED
            BY <5>2, <5>5, <5>7, <6>1, ZenonT(60)
        <5> QED
          BY <5>3, <5>6, <5>7
      <4>5. OrderedHeights'
        <5> SUFFICES ASSUME NEW i \in 1..Len(heights'), NEW j \in 1..Len(heights'), i < j
                     PROVE  /\ heights'[i].version < heights'[j].version
                            /\ heights'[i].height < heights'[j].height
                            /\ heights'[i].time < heights'[j].time
          BY DEF OrderedHeights
        <5>1. i \in 1..L /\ heights'[i] = heights[i]
          BY <3>1, <4>2
        <5>2. CASE j = L + 1
          BY <4>2, <4>4, <5>1, <5>2
        <5>3. CASE j \in 1..L
          BY <4>2, <5>1, <5>3 DEF OrderedInv, OrderedHeights
        <5> QED
          BY <3>1, <4>2, <5>2, <5>3
      <4> QED
        BY <3>1, <4>2, <4>5 DEF OrderedInv
    <3> QED
      BY <3>2, <3>3
  <2> QED
    BY <2>1, <2>2 DEF FillNext
<1> QED
  BY <1>1, <1>2, PTL DEF FillSpec

\* Whatever tables are compiled in, the tracker's table is strictly increasing.
THEOREM TableIsOrdered == FillSpec => []OrderedHeights
<1>1. OrderedInv => OrderedHeights
  BY DEF OrderedInv
<1> QED
  BY <1>1, OrderedHolds, PTL
\* The entries held, without their dates.
HeldTable ==
  [i \in 1..Len(heights) |->
     [version |-> heights[i].version, height |-> heights[i].height, threshold |-> heights[i].threshold]]

StartsWithOne(t) == t # <<>> /\ t[1].version = 1 /\ t[1].threshold <= 100

FilledInv ==
  /\ table \in Tables
  /\ \A i \in 1..Len(heights) : heights[i].version # 0 /\ heights[i].threshold <= 100
  /\ handed = 0 => heights = <<>>
  /\ handed # 0 => heights # <<>> /\ heights[1].version = 1

\* From the first call of add_fork on, a table that starts with version 1 leaves the tracker with
\* what HardFork assumes of its table, whatever the other entries are (Blockchain::init ignores
\* what add_fork refuses).
THEOREM TableIsAsAssumed ==
  ASSUME \A t \in Tables : StartsWithOne(t)
  PROVE  FillSpec => [](handed # 0 => IsForkTable(HeldTable))
<1>1. FillInit => FilledInv
  BY DEF FillInit, FilledInv
<1>2. OrderedInv /\ FilledInv /\ [FillNext]_fillVars => FilledInv'
  <2> SUFFICES ASSUME OrderedInv, FilledInv, [FillNext]_fillVars PROVE FilledInv'
    OBVIOUS
  <2>1. CASE UNCHANGED fillVars
    BY <2>1 DEF FilledInv, fillVars
  <2>2. CASE add_fork
    <3> DEFINE e == table[handed + 1]
               L == Len(heights)
    <3>1. /\ table' = table /\ handed' = handed + 1 /\ handed \in Nat /\ handed' # 0
          /\ e \in Entry /\ heights \in Seq(Entry) /\ L \in Nat
      BY <2>2 DEF add_fork, OrderedInv
    <3>2. heights' = IF Accepts(heights, e) THEN Append(heights, e) ELSE heights
      BY <2>2 DEF add_fork
    <3>3. StartsWithOne(table) /\ handed = 0 => e = table[1] /\ heights = <<>>
      BY DEF FilledInv
    <3>4. StartsWithOne(table) /\ table' \in Tables
      BY <3>1 DEF FilledInv
    <3> HIDE DEF e
    <3>5. CASE Accepts(heights, e)
      <4>1. heights' = Append(heights, e)
        BY <3>2, <3>5
      <4>2. /\ heights' \in Seq(Entry) /\ Len(heights') = L + 1 /\ heights'[L + 1] = e
            /\ \A i \in 1..L : heights'[i] = heights[i]
        BY <3>1, <4>1, AppendIs
      <4>3. e.version # 0 /\ e.threshold <= 100
        BY <3>5 DEF Accepts
      <4>4. \A i \in 1..Len(heights') : heights'[i].version # 0 /\ heights'[i].threshold <= 100
        <5>1. \A i \in 1..(L + 1) : i \in 1..L \/ i = L + 1
          BY <3>1
        <5>2. \A i \in 1..L : heights[i].version # 0 /\ heights[i].threshold <= 100
          BY DEF FilledInv
        <5> HIDE DEF L
        <5> QED
          BY <4>2, <4>3, <5>1, <5>2, ZenonT(60)
      <4>5. heights' # <<>>
        BY <3>1, <4>2
      <4>6. heights'[1].version = 1
        <5>1. CASE handed = 0
          <6>1. L = 0 /\ e.version = 1
            BY <3>3, <3>4, <5>1 DEF StartsWithOne
          <6> QED
            BY <4>2, <6>1
        <5>2. CASE handed # 0
          <6>1. heights # <<>> /\ heights[1].version = 1
            BY <5>2 DEF FilledInv
          <6>2. 1 \in 1..L
            BY <3>1, <6>1
          <6> QED
            BY <4>2, <6>1, <6>2
        <5> QED
          BY <5>1, <5>2
      <4> QED
        BY <3>1, <3>4, <4>4, <4>5, <4>6 DEF FilledInv
    <3>6. CASE ~ Accepts(heights, e)
      <4>1. heights' = heights
        BY <3>2, <3>6
      <4>2. handed # 0
        <5>1. SUFFICES ASSUME handed = 0 PROVE FALSE
          OBVIOUS
        <5>2. heights = <<>> /\ e.version = 1 /\ e.threshold <= 100
          BY <3>3, <3>4, <5>1 DEF StartsWithOne
        <5> QED
          BY <3>6, <5>2 DEF Accepts
      <4> QED
        BY <3>1, <3>4, <4>1, <4>2 DEF FilledInv
    <3> QED
      BY <3>5, <3>6
  <2> QED
    BY <2>1, <2>2 DEF FillNext
<1>3. OrderedInv /\ FilledInv => (handed # 0 => IsForkTable(HeldTable))
  <2> SUFFICES ASSUME OrderedInv, FilledInv, handed # 0 PROVE IsForkTable(HeldTable)
    OBVIOUS
  <2> DEFINE L == Len(heights)
             R == [version : Nat \ {0}, height : Nat, threshold : 0..100]
  <2>1. heights \in Seq(Entry) /\ L \in Nat \ {0} /\ heights[1].version = 1
    BY DEF OrderedInv, FilledInv
  <2>2. ASSUME NEW i \in 1..L
        PROVE  /\ HeldTable[i] \in R
               /\ HeldTable[i].version = heights[i].version /\ HeldTable[i].height = heights[i].height
    <3>1. heights[i] \in Entry /\ heights[i].version # 0 /\ heights[i].threshold <= 100
      BY <2>1 DEF FilledInv
    <3>2. heights[i].version \in Nat \ {0} /\ heights[i].height \in Nat /\ heights[i].threshold \in 0..100
      <4>1. heights[i].version \in Nat /\ heights[i].height \in Nat /\ heights[i].threshold \in Nat
        BY <3>1, ZenonT(60) DEF Entry
      <4>2. \A x \in Nat : (x # 0 => x \in Nat \ {0}) /\ (x <= 100 => x \in 0..100)
        OBVIOUS
      <4> QED
        BY <3>1, <4>1, <4>2, ZenonT(60)
    <3>3. HeldTable[i] = [version |-> heights[i].version, height |-> heights[i].height,
                          threshold |-> heights[i].threshold]
      BY DEF HeldTable
    <3> QED
      BY <3>2, <3>3
  <2>3. DOMAIN HeldTable = 1..L /\ HeldTable = [i \in 1..L |-> HeldTable[i]]
    BY DEF HeldTable
  <2> HIDE DEF R
  <2>4. HeldTable \in Seq(R) /\ Len(HeldTable) = L
    BY <2>1, <2>2, <2>3
  <2>5. \A i, j \in 1..L : i < j => heights[i].version < heights[j].version /\ heights[i].height < heights[j].height
    BY DEF OrderedInv, OrderedHeights
  <2>6. HeldTable # <<>> /\ HeldTable[1].version = 1
    BY <2>1, <2>2, <2>4
  <2> HIDE DEF L
  <2>7. \A i, j \in 1..L : i < j => /\ HeldTable[i].version < HeldTable[j].version
                                   /\ HeldTable[i].height < HeldTable[j].height
    BY <2>2, <2>5
  <2> QED
    BY <2>4, <2>6, <2>7, ZenonT(60) DEF IsForkTable, R
<1> QED
  BY <1>1, <1>2, <1>3, OrderedHolds, PTL DEF FillSpec
-----------------------------------------------------------------------------
(***************************************************************************)
(* What becomes of a table whose first k entries are in order and whose    *)
(* later entries are not dated after them: the first k are kept.           *)
(***************************************************************************)
OrderedUpTo(t, k) ==
  /\ k \in 1..Len(t)
  /\ \A i \in 1..k : t[i].version = i /\ t[i].threshold <= 100
  /\ \A i \in 1..(k - 1) : t[i].height < t[i + 1].height /\ t[i].time < t[i + 1].time
  /\ \A i \in (k + 1)..Len(t) : t[i].time <= t[k].time

KeptUpTo(k) ==
  /\ Len(heights) = IF handed <= k THEN handed ELSE k
  /\ \A i \in 1..Len(heights) : heights[i] = table[i]

LEMMA KeptNext ==
  ASSUME NEW k, OrderedUpTo(table, k), OrderedInv, KeptUpTo(k), add_fork
  PROVE  KeptUpTo(k)'
<1> DEFINE e == table[handed + 1]
           L == Len(heights)
<1>1. /\ handed \in Nat /\ Len(table) \in Nat /\ handed < Len(table) /\ handed' = handed + 1 /\ table' = table
      /\ k \in Nat /\ k >= 1 /\ k <= Len(table) /\ L \in Nat /\ heights \in Seq(Entry)
      /\ \A i \in 1..Len(table) : table[i] \in Entry
  BY DEF OrderedUpTo, OrderedInv, add_fork
<1>2. e \in Entry
  BY <1>1
<1>3. heights' = IF Accepts(heights, e) THEN Append(heights, e) ELSE heights
  BY DEF add_fork
<1>4. L = (IF handed <= k THEN handed ELSE k) /\ \A i \in 1..L : heights[i] = table[i]
  BY DEF KeptUpTo
<1>5. CASE handed < k
  <2>1. L = handed /\ handed + 1 \in 1..k
    BY <1>1, <1>4, <1>5
  <2>2. e.version = handed + 1 /\ e.threshold <= 100
    BY <2>1 DEF OrderedUpTo
  <2>3. ASSUME heights # <<>>
        PROVE  /\ e.version > heights[L].version
               /\ e.height > heights[L].height
               /\ e.time > heights[L].time
    <3>1. L \in 1..L /\ handed \in 1..k /\ handed \in 1..(k - 1) /\ heights[L] = table[handed]
      BY <1>1, <1>4, <2>1, <2>3
    <3>2. table[handed].version = handed /\ table[handed].height < e.height /\ table[handed].time < e.time
      BY <3>1 DEF OrderedUpTo
    <3>3. table[handed] \in Entry
      BY <1>1, <3>1
    <3>4. /\ table[handed].height \in Nat /\ table[handed].time \in Nat
          /\ e.height \in Nat /\ e.time \in Nat
      BY <1>2, <3>3 DEF Entry
    <3> HIDE DEF e, L
    <3>5. e.version > table[handed].version /\ e.height > table[handed].height /\ e.time > table[handed].time
      BY <1>1, <2>2, <3>2, <3>4
    <3> QED
      BY <3>1, <3>5
  <2>4. e.version # 0
    BY <1>1, <2>2
  <2>5. Accepts(heights, e)
    <3> HIDE DEF e
    <3> QED
      BY <2>2, <2>3, <2>4, ZenonT(60) DEF Accepts, L
  <2> HIDE DEF e
  <2>6. heights' = Append(heights, e)
    BY <1>3, <2>5, ZenonT(60)
  <2>7. /\ Len(heights') = L + 1 /\ heights'[L + 1] = e
        /\ \A i \in 1..L : heights'[i] = heights[i]
    BY <1>1, <1>2, <2>6, AppendIs
  <2>8. \A i \in 1..(L + 1) : heights'[i] = table[i]
    BY <1>1, <1>4, <2>1, <2>7 DEF e
  <2> QED
    BY <1>1, <2>1, <2>7, <2>8 DEF KeptUpTo
<1>6. CASE handed >= k
  <2>1. L = k /\ handed + 1 \in (k + 1)..Len(table) /\ L \in 1..L
    BY <1>1, <1>4, <1>6
  <2>2. heights # <<>> /\ heights[L] = table[k]
    BY <1>1, <1>4, <2>1
  <2>3. e.time <= table[k].time
    BY <2>1 DEF OrderedUpTo
  <2>4. table[k] \in Entry
    BY <1>1
  <2>5. ~ (e.time > table[k].time)
    BY <1>2, <2>3, <2>4 DEF Entry
  <2>6. ~ Accepts(heights, e)
    BY <2>2, <2>5, ZenonT(60) DEF Accepts
  <2>7. heights' = heights
    BY <1>3, <2>6
  <2> QED
    BY <1>1, <1>4, <1>6, <2>7 DEF KeptUpTo
<1> QED
  BY <1>1, <1>5, <1>6

\* The shipped tables.
LEMMA ShippedTables ==
  /\ OrderedUpTo(mainnet_hard_forks, 14)
  /\ OrderedUpTo(testnet_hard_forks, 14)
  /\ OrderedUpTo(stagenet_hard_forks, 12)
<1>1. OrderedUpTo(mainnet_hard_forks, 14)
  BY DEF OrderedUpTo, mainnet_hard_forks, hardfork_t
<1>2. OrderedUpTo(testnet_hard_forks, 14)
  BY DEF OrderedUpTo, testnet_hard_forks, hardfork_t
<1>3. OrderedUpTo(stagenet_hard_forks, 12)
  BY DEF OrderedUpTo, stagenet_hard_forks, hardfork_t
<1> QED
  BY <1>1, <1>2, <1>3, ZenonT(60)

ShippedInv ==
  /\ table \in {mainnet_hard_forks, testnet_hard_forks} => KeptUpTo(14)
  /\ table = stagenet_hard_forks => KeptUpTo(12)

\* The loop of Blockchain::init keeps every fork of the main and the test network, and those up
\* to version 12 of stagenet, when it is done with the compiled-in table.
THEOREM ShippedForksAreKept == FillSpec => []ShippedForksScheduled
<1>1. FillInit => ShippedInv
  BY DEF FillInit, ShippedInv, KeptUpTo
<1>2. OrderedInv /\ ShippedInv /\ [FillNext]_fillVars => ShippedInv'
  <2>1. SUFFICES ASSUME OrderedInv, ShippedInv, [FillNext]_fillVars PROVE ShippedInv'
    OBVIOUS
  <2>2. CASE UNCHANGED fillVars
    BY <2>1, <2>2 DEF fillVars, ShippedInv, KeptUpTo
  <2>3. CASE add_fork
    <3>1. table' = table
      BY <2>3 DEF add_fork
    <3>2. ASSUME NEW k, OrderedUpTo(table, k), KeptUpTo(k) PROVE KeptUpTo(k)'
      BY <2>1, <2>3, <3>2, KeptNext
    <3>3. table \in {mainnet_hard_forks, testnet_hard_forks} => KeptUpTo(14)'
      BY <2>1, <3>2, ShippedTables DEF ShippedInv
    <3>4. table = stagenet_hard_forks => KeptUpTo(12)'
      BY <2>1, <3>2, ShippedTables DEF ShippedInv
    <3> QED
      BY <3>1, <3>3, <3>4 DEF ShippedInv
  <2> QED
    BY <2>1, <2>2, <2>3 DEF FillNext
<1>3. OrderedInv /\ ShippedInv => ShippedForksScheduled
  <2>1. SUFFICES ASSUME OrderedInv, ShippedInv, handed = Len(table)
                 PROVE  /\ table \in {mainnet_hard_forks, testnet_hard_forks} => Scheduled = 1..14
                        /\ table = stagenet_hard_forks => Scheduled = 1..12
    BY DEF ShippedForksScheduled
  <2>2. ASSUME NEW k, OrderedUpTo(table, k), KeptUpTo(k) PROVE Scheduled = 1..k
    <3>1. k \in Nat /\ handed \in Nat /\ k <= handed /\ Len(heights) = k
      BY <2>1, <2>2 DEF OrderedUpTo, KeptUpTo, OrderedInv
    <3>2. \A i \in 1..k : heights[i].version = i
      BY <2>2, <3>1 DEF OrderedUpTo, KeptUpTo
    <3> QED
      BY <3>1, <3>2 DEF Scheduled
  <2> QED
    BY <2>1, <2>2, ShippedTables, ZenonT(60) DEF ShippedInv
<1> QED
  BY <1>1, <1>2, <1>3, OrderedHolds, PTL DEF FillSpec
=============================================================================
