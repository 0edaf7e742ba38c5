-------------------------- MODULE FileCacheProofs --------------------------
(***************************************************************************)
(* Proofs about FileCache, for every number of paths, connections, slots   *)
(* and descriptors and every hash.  A handler of static.c is followed call *)
(* by call: an entry is dropped and its descriptor retired, a newly opened *)
(* descriptor is put in an entry, a connection shares an entry, owns a     *)
(* descriptor or lets go of one; each of these keeps the tables Sound.     *)
(***************************************************************************)
EXTENDS FileCache, FiniteSetTheorems, TLAPS

-----------------------------------------------------------------------------
(* Numbers. *)

\* Every nonempty set of naturals has a least element.
LEMMA LeastNatural ==
    ASSUME NEW T \in SUBSET Nat, T # {}
    PROVE  \E x \in T : \A y \in T : x <= y
<1>1. \E x \in T : \A y \in T : ~(<<y, x>> \in OpToRel(<, Nat))
  BY WFMin, NatLessThanWellFounded
<1>2. PICK x \in T : \A y \in T : ~(<<y, x>> \in OpToRel(<, Nat))
  BY <1>1
<1>3. \A y \in T : y < x => <<y, x>> \in OpToRel(<, Nat)
  BY DEF OpToRel
<1>4. \A y \in T : ~(y < x)
  BY <1>2, <1>3, Zenon
<1> QED BY <1>4

-----------------------------------------------------------------------------
(***************************************************************************)
(* Facts about the operators.                                              *)
(***************************************************************************)

\* The least member of a nonempty set of naturals.
LEMMA MinNat ==
    ASSUME NEW S \in SUBSET Nat, S # {}
    PROVE  Min(S) \in S /\ \A y \in S : Min(S) <= y
  BY LeastNatural DEF Min

\* The constants are what their assumption says.
LEMMA Sizes ==
    /\ CacheSlots \in Nat /\ CacheSlots > 0 /\ RetiredSlots \in Nat /\ NFds \in Nat
    /\ MaxVersion \in Nat /\ Hash \in [Paths -> Slots] /\ IsFiniteSet(Conns)
    /\ Slots \subseteq Nat /\ Retired \subseteq Nat /\ Fds \subseteq Nat
    /\ Versions \subseteq Nat /\ Gone \in Versions
    /\ Cardinality(Conns) \in Nat
<1>1. IsFiniteSet(Conns) /\ Cardinality(Conns) \in Nat
  BY SizesAssumption, FS_CardinalityType
<1> QED BY <1>1, SizesAssumption DEF Slots, Retired, Fds, Versions, Gone

\* The descriptor the kernel hands out is a free one.
LEMMA LowestFree ==
    ASSUME FreeFds # {}
    PROVE  Min(FreeFds) \in Fds /\ open[Min(FreeFds)] = Shut
<1>1. FreeFds \in SUBSET Nat
  BY Sizes DEF FreeFds
<1> QED BY <1>1, MinNat DEF FreeFds

\* A probe stays in the table.
LEMMA ProbeInTable ==
    ASSUME NEW p \in Paths, NEW n \in Nat
    PROVE  Probe(p, n) \in Slots
<1>1. Hash[p] \in Nat /\ CacheSlots \in Nat /\ CacheSlots > 0
  BY Sizes
<1>2. Hash[p] + n \in Nat
  BY <1>1
<1>3. ASSUME NEW x \in Nat PROVE x % CacheSlots \in 0 .. CacheSlots - 1
  BY <1>1
<1> QED BY <1>2, <1>3 DEF Probe, Slots

\* Counting one more use changes nothing else of the table.
LEMMA HoldFacts ==
    ASSUME NEW ca, ca \in [Slots -> Entry], NEW i \in Slots
    PROVE  /\ DOMAIN Hold(i, ca) = Slots
           /\ \A j \in Slots : j # i => Hold(i, ca)[j] = ca[j]
           /\ Hold(i, ca)[i] = [ca[i] EXCEPT !.uses = ca[i].uses + 1]
           /\ Hold(i, ca) = [ca EXCEPT ![i] = [ca[i] EXCEPT !.uses = ca[i].uses + 1]]
  BY DEF Hold

\* The connections sharing a descriptor are finitely many.
LEMMA SharersCount ==
    ASSUME NEW co, NEW d
    PROVE  /\ IsFiniteSet(Sharers(co, d))
           /\ Cardinality(Sharers(co, d)) \in 0 .. Cardinality(Conns)
<1>1. Sharers(co, d) \subseteq Conns
  BY DEF Sharers
<1>2. IsFiniteSet(Sharers(co, d)) /\ Cardinality(Sharers(co, d)) <= Cardinality(Conns)
  BY <1>1, Sizes, FS_Subset
<1>3. Cardinality(Sharers(co, d)) \in Nat
  BY <1>2, FS_CardinalityType
<1> QED BY <1>2, <1>3, Sizes

\* A connection that begins to share d is one sharer more of d, and no other
\* descriptor's sharers change.
LEMMA SharersJoin ==
    ASSUME NEW co \in [Conns -> Sent], NEW c \in Conns, NEW s \in Sent,
           co[c].fd = NoFd, s.fd # NoFd, ~s.owned
    PROVE  LET new == [co EXCEPT ![c] = s]
           IN  /\ Cardinality(Sharers(new, s.fd)) = Cardinality(Sharers(co, s.fd)) + 1
               /\ \A d \in Fds : d # s.fd => Sharers(new, d) = Sharers(co, d)
<1> DEFINE new == [co EXCEPT ![c] = s]
<1>1. c \notin Sharers(co, s.fd)
  BY DEF Sharers
<1>2. Sharers(new, s.fd) = Sharers(co, s.fd) \cup {c}
  BY DEF Sharers
<1>3. \A d \in Fds : d # s.fd => Sharers(new, d) = Sharers(co, d)
  <2>1. \A d \in Fds : d # NoFd
    BY Sizes DEF NoFd
  <2> QED BY <2>1 DEF Sharers
<1>4. Cardinality(Sharers(co, s.fd) \cup {c}) = Cardinality(Sharers(co, s.fd)) + 1
  BY <1>1, SharersCount, FS_AddElement
<1> QED BY <1>2, <1>3, <1>4

\* A connection that owns its descriptor is no sharer of any.
LEMMA SharersOwn ==
    ASSUME NEW co \in [Conns -> Sent], NEW c \in Conns, NEW s \in Sent,
           co[c].fd = NoFd \/ co[c].owned, s.fd = NoFd \/ s.owned
    PROVE  \A d \in Fds : Sharers([co EXCEPT ![c] = s], d) = Sharers(co, d)
<1>1. \A d \in Fds : d # NoFd
  BY Sizes DEF NoFd
<1> QED BY <1>1 DEF Sharers

\* A connection that lets go of d is one sharer less of it.
LEMMA SharersLeave ==
    ASSUME NEW co \in [Conns -> Sent], NEW c \in Conns, NEW s \in Sent,
           co[c].fd # NoFd, ~co[c].owned, s.fd = NoFd
    PROVE  LET new == [co EXCEPT ![c] = s]
           IN  /\ Cardinality(Sharers(co, co[c].fd)) > 0
               /\ Cardinality(Sharers(new, co[c].fd)) = Cardinality(Sharers(co, co[c].fd)) - 1
               /\ \A d \in Fds : d # co[c].fd => Sharers(new, d) = Sharers(co, d)
<1> DEFINE new == [co EXCEPT ![c] = s]
           D == Sharers(co, co[c].fd)
<1>1. c \in D
  BY DEF Sharers
<1>2. Sharers(new, co[c].fd) = D \ {c}
  BY DEF Sharers
<1>3. \A d \in Fds : d # co[c].fd => Sharers(new, d) = Sharers(co, d)
  <2>1. \A d \in Fds : d # NoFd
    BY Sizes DEF NoFd
  <2> QED BY <2>1 DEF Sharers
<1>4. IsFiniteSet(D) /\ Cardinality(D) \in Nat
  BY SharersCount, FS_CardinalityType
<1> HIDE DEF D
<1>5. Cardinality(D \ {c}) = Cardinality(D) - 1 /\ Cardinality(D \ {c}) \in Nat
  BY <1>1, <1>4, FS_RemoveElement, FS_CardinalityType
<1>6. Cardinality(D) > 0
  BY <1>4, <1>5
<1> QED BY <1>2, <1>3, <1>5, <1>6 DEF D

-----------------------------------------------------------------------------
(***************************************************************************)
(* What each call does to the tables.                                      *)
(***************************************************************************)

\* The types of what Sound tables hold, field by field.
LEMMA SoundTypes ==
    ASSUME NEW o, NEW ca, NEW re, NEW co, Sound(o, ca, re, co)
    PROVE  /\ \A i \in Slots : /\ ca[i].fd >= 0 => ca[i].fd \in Fds
                               /\ ca[i].fd \in Int /\ ca[i].uses \in Nat
                               /\ ca[i].meta \in Versions
           /\ \A r \in Retired : /\ re[r].fd # NoFd => re[r].fd \in Fds
                                 /\ re[r].uses \in Nat
           /\ \A c \in Conns : /\ co[c].fd # NoFd => co[c].fd \in Fds
                               /\ co[c].version \in Versions
           /\ \A d \in Fds : o[d] \in Int /\ d # NoFd /\ d # Empty /\ d # Tombstone
<1>1. \A i \in Slots : ca[i] \in Entry
  BY DEF Sound
<1>2. \A r \in Retired : re[r] \in Kept
  BY DEF Sound
<1>3. \A c \in Conns : co[c] \in Sent
  BY DEF Sound
<1>4. \A d \in Fds : o[d] \in Versions \cup {Shut}
  BY DEF Sound
<1>9. 0 .. Cardinality(Conns) \subseteq Nat /\ Fds \subseteq Nat /\ Versions \subseteq Nat
  BY Sizes
<1>5. ASSUME NEW i \in Slots
      PROVE  /\ ca[i].fd >= 0 => ca[i].fd \in Fds
             /\ ca[i].fd \in Int /\ ca[i].uses \in Nat
             /\ ca[i].meta \in Versions
  <2>1. /\ ca[i].fd \in Fds \cup {Empty, Tombstone} /\ ca[i].meta \in Versions
        /\ ca[i].uses \in 0 .. Cardinality(Conns)
    BY <1>1 DEF Entry
  <2>2. ca[i].uses \in Nat
    BY <2>1, <1>9
  <2>3. CASE ca[i].fd \in Fds
    <3>1. ca[i].fd \in Nat
      BY <2>3, <1>9
    <3> QED BY <3>1, <2>1, <2>2, <2>3
  <2>4. CASE ca[i].fd \in {Empty, Tombstone}
    BY <2>1, <2>2, <2>4 DEF Empty, Tombstone
  <2> QED BY <2>1, <2>3, <2>4
<1>6. ASSUME NEW r \in Retired
      PROVE  (re[r].fd # NoFd => re[r].fd \in Fds) /\ re[r].uses \in Nat
  <2>1. re[r].fd \in Fds \cup {NoFd} /\ re[r].uses \in 0 .. Cardinality(Conns)
    BY <1>2 DEF Kept
  <2> QED BY <2>1, <1>9
<1>7. \A c \in Conns : /\ co[c].fd # NoFd => co[c].fd \in Fds
                       /\ co[c].version \in Versions
  BY <1>3 DEF Sent
<1>8. ASSUME NEW d \in Fds
      PROVE  o[d] \in Int /\ d # NoFd /\ d # Empty /\ d # Tombstone
  <2>1. d \in Nat /\ Shut \in Int
    BY <1>9 DEF Shut
  <2>2. o[d] \in Int
    <3>1. o[d] \in Versions \/ o[d] = Shut
      BY <1>4
    <3>2. Versions \subseteq Int
      BY Sizes
    <3> QED BY <3>1, <3>2, <2>1
  <2> QED BY <2>1, <2>2 DEF NoFd, Empty, Tombstone
<1> QED BY <1>5, <1>6, <1>7, <1>8

\* A free descriptor is held by nobody.
LEMMA FreeIsUnheld ==
    ASSUME NEW o, NEW ca, NEW re, NEW co, Sound(o, ca, re, co), NEW d \in Fds, o[d] = Shut
    PROVE  /\ \A i \in Slots : ca[i].fd # d
           /\ \A r \in Retired : re[r].fd # d
           /\ \A c \in Conns : co[c].fd # d
           /\ Sharers(co, d) = {}
<1>1. Backed(o, ca, re, co)
  BY DEF Sound
<1>2. \A i \in Slots : ca[i].fd # d
  <2>1. \A i \in Slots : ca[i].meta \in Nat
    BY SoundTypes, Sizes
  <2>2. d \in Nat
    BY Sizes
  <2> QED BY <1>1, <2>1, <2>2 DEF Backed, Shut
<1>3. \A r \in Retired : re[r].fd # d
  BY <1>1, SoundTypes DEF Backed
<1>4. \A c \in Conns : co[c].fd # d
  <2>1. \A c \in Conns : co[c].version \in Nat
    BY SoundTypes, Sizes
  <2> QED BY <1>1, <2>1, SoundTypes DEF Backed, Shut
<1> QED BY <1>2, <1>3, <1>4 DEF Sharers

\* tombstone: the entry is given up and its descriptor closed, or retired, or left
\* open and in no table.
LEMMA DropIsSound ==
    ASSUME NEW o, NEW ca, NEW co, Sound(o, ca, retired, co), NEW i \in Slots, ca[i].fd >= 0
    PROVE  LET r == Retire(o, ca[i].fd, ca[i].uses)
           IN  /\ Sound(r.open, [ca EXCEPT ![i] = [NoEntry EXCEPT !.fd = Tombstone]], r.retired, co)
               /\ \A d \in Fds : d # ca[i].fd => r.open[d] = o[d]
<1> DEFINE r == Retire(o, ca[i].fd, ca[i].uses)
           gone == [NoEntry EXCEPT !.fd = Tombstone]
           new == [ca EXCEPT ![i] = gone]
           room == {q \in Retired : retired[q].fd = NoFd}
<1>1. /\ o \in [Fds -> Versions \cup {Shut}] /\ ca \in [Slots -> Entry]
      /\ retired \in [Retired -> Kept] /\ co \in [Conns -> Sent]
  BY DEF Sound
<1>2. Apart(ca, retired, co) /\ Backed(o, ca, retired, co) /\ Counted(ca, retired, co)
  BY DEF Sound
<1>3. ca[i].fd \in Fds /\ ca[i].uses \in Nat /\ ca[i].fd # NoFd
  BY SoundTypes
<1>4. gone \in Entry /\ gone.fd = Tombstone /\ ~(gone.fd >= 0)
  <2>1. 0 \in 0 .. Cardinality(Conns) /\ Gone \in Versions
    BY Sizes
  <2>2. gone \in Entry /\ gone.fd = Tombstone
    BY <2>1 DEF NoEntry, Entry
  <2> QED BY <2>2 DEF Tombstone
<1>5. new \in [Slots -> Entry] /\ new[i] = gone /\ \A j \in Slots : j # i => new[j] = ca[j]
  BY <1>1, <1>4
<1> HIDE DEF gone, new
<1>6. \A j \in Slots : new[j].fd >= 0 => j # i /\ new[j] = ca[j]
  BY <1>4, <1>5
<1>7. CASE ca[i].uses = 0
  <2>1. r.open = [o EXCEPT ![ca[i].fd] = Shut] /\ r.retired = retired
    BY <1>7 DEF Retire
  <2>2. r.open \in [Fds -> Versions \cup {Shut}]
    BY <2>1, <1>1
  <2>3. Sharers(co, ca[i].fd) = {}
    <3>1. Cardinality(Sharers(co, ca[i].fd)) = 0
      BY <1>2, <1>7 DEF Counted
    <3> QED BY <3>1, SharersCount, FS_EmptySet
  <2>4. \A c \in Conns : co[c].fd # ca[i].fd
    BY <2>3, <1>2, <1>3 DEF Sharers, Apart
  <2>5. Apart(new, retired, co)
    BY <1>2, <1>4, <1>5, <1>6, SoundTypes DEF Apart
  <2>6. \A d \in Fds : d # ca[i].fd => r.open[d] = o[d]
    BY <2>1, <1>1
  <2>7. Backed(r.open, new, retired, co)
    <3>1. \A j \in Slots : new[j].fd >= 0 => new[j].fd # ca[i].fd /\ new[j].fd \in Fds
      BY <1>2, <1>6, SoundTypes DEF Apart
    <3>2. \A q \in Retired : retired[q].fd # NoFd => retired[q].fd # ca[i].fd /\ retired[q].fd \in Fds
      BY <1>2, SoundTypes DEF Apart
    <3> QED BY <1>2, <1>6, <2>4, <2>6, <3>1, <3>2, SoundTypes DEF Backed
  <2>8. Counted(new, retired, co)
    BY <1>2, <1>6 DEF Counted
  <2> QED BY <1>1, <1>5, <2>1, <2>2, <2>5, <2>6, <2>7, <2>8 DEF Sound, new, gone
<1>8. CASE ca[i].uses > 0 /\ room # {}
  <2> DEFINE q == Min(room)
             kept == [fd |-> ca[i].fd, uses |-> ca[i].uses]
  <2>1. q \in Retired /\ retired[q].fd = NoFd
    <3>1. room \in SUBSET Nat
      BY Sizes
    <3> QED BY <3>1, <1>8, MinNat
  <2>2. r.open = o /\ r.retired = [retired EXCEPT ![q] = kept]
    BY <1>8 DEF Retire
  <2>3. kept \in Kept
    <3>1. ca[i].uses \in 0 .. Cardinality(Conns)
      BY <1>1 DEF Entry
    <3> QED BY <3>1, <1>3 DEF Kept
  <2> HIDE DEF q
  <2>4. /\ r.retired \in [Retired -> Kept] /\ r.retired[q] = kept
        /\ \A s \in Retired : s # q => r.retired[s] = retired[s]
    BY <2>1, <2>2, <2>3, <1>1
  <2> HIDE DEF r
  <2>5. Apart(new, r.retired, co)
    <3>1. \A j \in Slots : new[j].fd >= 0 => new[j].fd # ca[i].fd
      BY <1>2, <1>6 DEF Apart
    <3>2. \A s \in Retired : s # q => retired[s].fd # ca[i].fd
      BY <1>2 DEF Apart
    <3>3. \A c \in Conns : co[c].fd # NoFd /\ co[c].owned => co[c].fd # ca[i].fd
      BY <1>2 DEF Apart
    <3> QED BY <1>2, <1>3, <1>4, <1>5, <1>6, <2>1, <2>4, <3>1, <3>2, <3>3, SoundTypes DEF Apart
  <2>6. Backed(o, new, r.retired, co)
    <3>1. o[ca[i].fd] # Shut
      <4>1. ca[i].meta \in Nat
        BY SoundTypes, Sizes
      <4> QED BY <1>2, <4>1 DEF Backed, Shut
    <3> QED BY <1>2, <1>6, <2>1, <2>4, <3>1 DEF Backed
  <2>7. Counted(new, r.retired, co)
    <3>1. kept.uses > 0 /\ kept.uses = Cardinality(Sharers(co, kept.fd))
      BY <1>2, <1>8 DEF Counted
    <3> QED BY <1>2, <1>6, <2>1, <2>4, <3>1 DEF Counted
  <2> QED BY <1>1, <1>5, <2>2, <2>4, <2>5, <2>6, <2>7 DEF Sound, new, gone, r
<1>9. CASE ca[i].uses > 0 /\ room = {}
  <2>1. r.open = o /\ r.retired = retired
    BY <1>9 DEF Retire
  <2>2. Apart(new, retired, co)
    BY <1>2, <1>4, <1>5, <1>6, SoundTypes DEF Apart
  <2>3. Backed(o, new, retired, co)
    BY <1>2, <1>6 DEF Backed
  <2>4. Counted(new, retired, co)
    BY <1>2, <1>6 DEF Counted
  <2> QED BY <1>1, <1>5, <2>1, <2>2, <2>3, <2>4 DEF Sound, new, gone
<1> QED BY <1>3, <1>7, <1>8, <1>9

\* A descriptor just opened on version v, with no user yet, goes into a slot that
\* has none.
LEMMA PutIsSound ==
    ASSUME NEW o, NEW ca, NEW re, NEW co, Sound(o, ca, re, co), NEW i \in Slots, ~(ca[i].fd >= 0),
           NEW d \in Fds, o[d] = Shut, NEW v \in Versions,
           NEW e \in Entry, e.fd = d, e.uses = 0, e.meta <= v
    PROVE  Sound([o EXCEPT ![d] = v], [ca EXCEPT ![i] = e], re, co)
<1> DEFINE tab == [o EXCEPT ![d] = v]
           new == [ca EXCEPT ![i] = e]
<1>1. /\ o \in [Fds -> Versions \cup {Shut}] /\ ca \in [Slots -> Entry]
      /\ re \in [Retired -> Kept] /\ co \in [Conns -> Sent]
  BY DEF Sound
<1>2. Apart(ca, re, co) /\ Backed(o, ca, re, co) /\ Counted(ca, re, co)
  BY DEF Sound
<1>3. /\ \A j \in Slots : ca[j].fd # d
      /\ \A r \in Retired : re[r].fd # d
      /\ \A c \in Conns : co[c].fd # d
      /\ Cardinality(Sharers(co, d)) = 0
  <2>1. Cardinality({}) = 0
    BY FS_EmptySet
  <2>2. Sharers(co, d) = {}
    BY FreeIsUnheld
  <2> QED BY <2>1, <2>2, FreeIsUnheld
<1>4. new \in [Slots -> Entry] /\ new[i] = e /\ \A j \in Slots : j # i => new[j] = ca[j]
  BY <1>1
<1>5. tab \in [Fds -> Versions \cup {Shut}] /\ tab[d] = v /\ \A x \in Fds : x # d => tab[x] = o[x]
  BY <1>1
<1>6. d \in Nat /\ d # NoFd
  BY SoundTypes, Sizes
<1> HIDE DEF new, tab
<1>7. Apart(new, re, co)
  BY <1>2, <1>3, <1>4, <1>6 DEF Apart
<1>8. Backed(tab, new, re, co)
  <2>1. v # Shut
    BY Sizes DEF Shut
  <2>2. \A j \in Slots : new[j].fd >= 0 => tab[new[j].fd] >= new[j].meta
    <3>1. tab[e.fd] >= e.meta
      <4>1. e.meta \in Nat /\ v \in Nat
        BY Sizes DEF Entry
      <4> QED BY <4>1, <1>5
    <3>2. \A j \in Slots : j # i /\ ca[j].fd >= 0 => ca[j].fd \in Fds /\ ca[j].fd # d
      BY <1>3, SoundTypes
    <3> QED BY <3>1, <3>2, <1>2, <1>4, <1>5 DEF Backed
  <2>3. \A r \in Retired : re[r].fd # NoFd => tab[re[r].fd] # Shut
    BY <1>2, <1>3, <1>5, SoundTypes DEF Backed
  <2>4. \A c \in Conns : co[c].fd # NoFd => tab[co[c].fd] = co[c].version
    BY <1>2, <1>3, <1>5, SoundTypes DEF Backed
  <2> QED BY <2>2, <2>3, <2>4 DEF Backed
<1>9. Counted(new, re, co)
  BY <1>2, <1>3, <1>4 DEF Counted
<1> QED BY <1>1, <1>4, <1>5, <1>7, <1>8, <1>9 DEF Sound, new, tab

\* file_cache_hold and arm_regular: the connection shares the entry's descriptor.
LEMMA ShareIsSound ==
    ASSUME NEW o, NEW ca, NEW re, NEW co, Sound(o, ca, re, co), NEW i \in Slots, ca[i].fd >= 0,
           NEW c \in Conns, co[c].fd = NoFd,
           NEW s \in Sent, s.fd = ca[i].fd, ~s.owned, s.version = o[ca[i].fd]
    PROVE  Sound(o, Hold(i, ca), re, [co EXCEPT ![c] = s])
<1> DEFINE now == [co EXCEPT ![c] = s]
           new == Hold(i, ca)
<1>1. /\ o \in [Fds -> Versions \cup {Shut}] /\ ca \in [Slots -> Entry]
      /\ re \in [Retired -> Kept] /\ co \in [Conns -> Sent]
  BY DEF Sound
<1>2. Apart(ca, re, co) /\ Backed(o, ca, re, co) /\ Counted(ca, re, co)
  BY DEF Sound
<1>3. ca[i].fd \in Fds /\ s.fd # NoFd /\ ca[i] \in Entry /\ ca[i].uses \in Nat
  BY <1>1, SoundTypes
<1>4. /\ Cardinality(Sharers(now, s.fd)) = Cardinality(Sharers(co, s.fd)) + 1
      /\ \A d \in Fds : d # s.fd => Sharers(now, d) = Sharers(co, d)
  BY <1>1, <1>3, SharersJoin
<1>5. ca[i].uses = Cardinality(Sharers(co, s.fd))
  BY <1>2 DEF Counted
<1>6. ca[i].uses + 1 \in 0 .. Cardinality(Conns)
  BY <1>4, <1>5, SharersCount
<1>7. /\ new = [ca EXCEPT ![i] = [ca[i] EXCEPT !.uses = ca[i].uses + 1]]
      /\ \A j \in Slots : j # i => new[j] = ca[j]
      /\ new[i] = [ca[i] EXCEPT !.uses = ca[i].uses + 1]
  BY <1>1, HoldFacts
<1>8. [ca[i] EXCEPT !.uses = ca[i].uses + 1] \in Entry
  BY <1>3, <1>6 DEF Entry
<1>9. new \in [Slots -> Entry]
  BY <1>1, <1>7, <1>8
<1>10. new[i].fd = ca[i].fd /\ new[i].meta = ca[i].meta /\ new[i].uses = ca[i].uses + 1
  BY <1>3, <1>7 DEF Entry
<1>11. \A j \in Slots : new[j].fd = ca[j].fd /\ new[j].meta = ca[j].meta
  BY <1>7, <1>10
<1>12. now \in [Conns -> Sent] /\ now[c] = s /\ \A e \in Conns : e # c => now[e] = co[e]
  BY <1>1
<1> HIDE DEF now, new
<1>13. Apart(new, re, now)
  <2>1. \A e \in Conns : now[e].fd # NoFd /\ now[e].owned => e # c /\ now[e] = co[e]
    BY <1>12
  <2>2. \A e \in Conns : now[e].fd # NoFd /\ now[e].owned => now[e].fd # s.fd
    BY <1>2, <2>1 DEF Apart
  <2>3. \A e, f \in Conns : now[e].fd # NoFd /\ now[e].owned /\ now[e].fd = now[f].fd => e = f
    BY <1>2, <1>12, <2>1, <2>2 DEF Apart
  <2> QED BY <1>2, <1>11, <2>1, <2>3 DEF Apart
<1>14. Backed(o, new, re, now)
  BY <1>2, <1>11, <1>12 DEF Backed
<1>15. Counted(new, re, now)
  <2>1. \A j \in Slots : j # i /\ new[j].fd >= 0 => new[j].fd # s.fd /\ new[j].fd \in Fds
    BY <1>2, <1>11, SoundTypes DEF Apart
  <2>2. \A r \in Retired : re[r].fd # NoFd => re[r].fd # s.fd /\ re[r].fd \in Fds
    BY <1>2, SoundTypes DEF Apart
  <2> QED BY <1>2, <1>4, <1>5, <1>7, <1>10, <2>1, <2>2 DEF Counted
<1> QED BY <1>1, <1>9, <1>12, <1>13, <1>14, <1>15 DEF Sound, now, new

\* arm_regular on a descriptor just opened, that the connection owns.
LEMMA OwnIsSound ==
    ASSUME NEW o, NEW ca, NEW re, NEW co, Sound(o, ca, re, co),
           NEW c \in Conns, co[c].fd = NoFd, NEW d \in Fds, o[d] = Shut, NEW v \in Versions,
           NEW s \in Sent, s.fd = d, s.owned, s.version = v
    PROVE  Sound([o EXCEPT ![d] = v], ca, re, [co EXCEPT ![c] = s])
<1> DEFINE now == [co EXCEPT ![c] = s]
           tab == [o EXCEPT ![d] = v]
<1>1. /\ o \in [Fds -> Versions \cup {Shut}] /\ ca \in [Slots -> Entry]
      /\ re \in [Retired -> Kept] /\ co \in [Conns -> Sent]
  BY DEF Sound
<1>2. Apart(ca, re, co) /\ Backed(o, ca, re, co) /\ Counted(ca, re, co)
  BY DEF Sound
<1>3. /\ \A j \in Slots : ca[j].fd # d
      /\ \A r \in Retired : re[r].fd # d
      /\ \A e \in Conns : co[e].fd # d
  BY FreeIsUnheld
<1>4. \A x \in Fds : Sharers(now, x) = Sharers(co, x)
  BY <1>1, SharersOwn
<1>5. tab \in [Fds -> Versions \cup {Shut}] /\ tab[d] = v /\ \A x \in Fds : x # d => tab[x] = o[x]
  BY <1>1
<1>6. now \in [Conns -> Sent] /\ now[c] = s /\ \A e \in Conns : e # c => now[e] = co[e]
  BY <1>1
<1> HIDE DEF now, tab
<1>7. Apart(ca, re, now)
  BY <1>2, <1>3, <1>6 DEF Apart
<1>8. Backed(tab, ca, re, now)
  <2>1. \A e \in Conns : now[e].fd # NoFd => tab[now[e].fd] = now[e].version
    BY <1>2, <1>3, <1>5, <1>6, SoundTypes DEF Backed
  <2> QED BY <1>2, <1>3, <1>5, <2>1, SoundTypes DEF Backed
<1>9. Counted(ca, re, now)
  BY <1>2, <1>4, SoundTypes DEF Counted
<1> QED BY <1>1, <1>5, <1>6, <1>7, <1>8, <1>9 DEF Sound, now, tab

\* The end of a response from a descriptor the connection owns: it is closed.
LEMMA CloseIsSound ==
    ASSUME NEW o, NEW ca, NEW re, NEW co, Sound(o, ca, re, co),
           NEW c \in Conns, co[c].fd # NoFd, co[c].owned
    PROVE  Sound([o EXCEPT ![co[c].fd] = Shut], ca, re, [co EXCEPT ![c] = NoFile])
<1> DEFINE now == [co EXCEPT ![c] = NoFile]
           tab == [o EXCEPT ![co[c].fd] = Shut]
<1>1. /\ o \in [Fds -> Versions \cup {Shut}] /\ ca \in [Slots -> Entry]
      /\ re \in [Retired -> Kept] /\ co \in [Conns -> Sent]
  BY DEF Sound
<1>2. Apart(ca, re, co) /\ Backed(o, ca, re, co) /\ Counted(ca, re, co)
  BY DEF Sound
<1>3. NoFile \in Sent /\ NoFile.fd = NoFd
  BY Sizes DEF NoFile, Sent
<1>4. \A x \in Fds : Sharers(now, x) = Sharers(co, x)
  BY <1>1, <1>3, SharersOwn
<1>5. now \in [Conns -> Sent] /\ now[c] = NoFile /\ \A e \in Conns : e # c => now[e] = co[e]
  BY <1>1, <1>3
<1>6. tab \in [Fds -> Versions \cup {Shut}] /\ \A x \in Fds : x # co[c].fd => tab[x] = o[x]
  BY <1>1
<1>7. \A e \in Conns : now[e].fd # NoFd => e # c /\ now[e] = co[e] /\ co[e].fd # co[c].fd
  BY <1>2, <1>3, <1>5 DEF Apart
<1> HIDE DEF now, tab
<1>8. Apart(ca, re, now)
  <2>1. \A e, f \in Conns : now[e].fd # NoFd /\ now[e].owned /\ now[e].fd = now[f].fd => e = f
    BY <1>2, <1>7 DEF Apart
  <2> QED BY <1>2, <1>7, <2>1 DEF Apart
<1>9. Backed(tab, ca, re, now)
  <2>1. \A i \in Slots : ca[i].fd >= 0 => ca[i].fd # co[c].fd /\ ca[i].fd \in Fds
    BY <1>2, SoundTypes DEF Apart
  <2>2. \A r \in Retired : re[r].fd # NoFd => re[r].fd # co[c].fd /\ re[r].fd \in Fds
    BY <1>2, SoundTypes DEF Apart
  <2>3. \A e \in Conns : now[e].fd # NoFd => now[e].fd \in Fds
    BY <1>7, SoundTypes
  <2> QED BY <1>2, <1>6, <1>7, <2>1, <2>2, <2>3 DEF Backed
<1>10. Counted(ca, re, now)
  BY <1>2, <1>4, SoundTypes DEF Counted
<1> QED BY <1>1, <1>5, <1>6, <1>8, <1>9, <1>10 DEF Sound, now, tab

\* static_cache_release: found by its number, the descriptor has one user less, and
\* the last user of a retired one closes it.  In every case only the use counts of
\* the cache change.
LEMMA ReleaseIsSound ==
    ASSUME Sound(open, cache, retired, conn), NEW c \in Conns, conn[c].fd # NoFd, ~conn[c].owned
    PROVE  LET r == Release(conn[c].fd)
           IN  /\ Sound(r.open, r.cache, r.retired, [conn EXCEPT ![c] = NoFile])
               /\ \A j \in Slots : /\ r.cache[j].fd = cache[j].fd /\ r.cache[j].path = cache[j].path
                                   /\ r.cache[j].fresh = cache[j].fresh
               /\ \A j \in Slots : cache[j].fd >= 0 => r.open[cache[j].fd] = open[cache[j].fd]
<1> DEFINE d == conn[c].fd
           r == Release(d)
           now == [conn EXCEPT ![c] = NoFile]
           hit == {i \in Slots : cache[i].fd = d}
           old == {q \in Retired : retired[q].fd = d}
<1>1. /\ open \in [Fds -> Versions \cup {Shut}] /\ cache \in [Slots -> Entry]
      /\ retired \in [Retired -> Kept] /\ conn \in [Conns -> Sent]
  BY DEF Sound
<1>2. Apart(cache, retired, conn) /\ Backed(open, cache, retired, conn) /\ Counted(cache, retired, conn)
  BY DEF Sound
<1>3. NoFile \in Sent /\ NoFile.fd = NoFd
  BY Sizes DEF NoFile, Sent
<1>4. /\ Cardinality(Sharers(conn, d)) > 0
      /\ Cardinality(Sharers(now, d)) = Cardinality(Sharers(conn, d)) - 1
      /\ \A x \in Fds : x # d => Sharers(now, x) = Sharers(conn, x)
  BY <1>1, <1>3, SharersLeave
<1>5. d \in Fds /\ d \in Nat
  BY SoundTypes, Sizes
<1>6. now \in [Conns -> Sent] /\ now[c] = NoFile /\ \A e \in Conns : e # c => now[e] = conn[e]
  BY <1>1, <1>3
<1>7. \A e \in Conns : now[e].fd # NoFd => e # c /\ now[e] = conn[e]
  BY <1>3, <1>6
<1> HIDE DEF now, d
<1>8. ASSUME NEW ca, NEW re, Apart(ca, re, conn) PROVE Apart(ca, re, now)
  <2>1. \A e, f \in Conns : now[e].fd # NoFd /\ now[e].owned /\ now[e].fd = now[f].fd => e = f
    BY <1>7, <1>8 DEF Apart
  <2> QED BY <1>7, <1>8, <2>1 DEF Apart
<1>9. ASSUME NEW ca, NEW re, Backed(open, ca, re, conn) PROVE Backed(open, ca, re, now)
  BY <1>7, <1>9 DEF Backed
<1>10. CASE hit # {}
  <2> DEFINE i == Min(hit)
             e == [cache[i] EXCEPT !.uses = cache[i].uses - 1]
             new == [cache EXCEPT ![i] = e]
  <2>1. i \in Slots /\ cache[i].fd = d
    <3>1. hit \in SUBSET Nat
      BY Sizes
    <3> QED BY <3>1, <1>10, MinNat
  <2>2. cache[i].uses = Cardinality(Sharers(conn, d)) /\ cache[i] \in Entry
    BY <1>1, <1>2, <1>5, <2>1 DEF Counted
  <2>3. cache[i].uses > 0 /\ cache[i].uses - 1 \in 0 .. Cardinality(Conns)
    BY <1>4, <2>2, SharersCount
  <2>4. r.open = open /\ r.retired = retired
        /\ r.cache = [cache EXCEPT ![i] = [cache[i] EXCEPT !.uses = IF cache[i].uses > 0
                                                                    THEN cache[i].uses - 1 ELSE 0]]
    BY <1>10 DEF Release
  <2> HIDE DEF i
  <2>5. r.cache = new
    BY <2>3, <2>4
  <2>6. /\ e \in Entry /\ e.fd = cache[i].fd /\ e.path = cache[i].path /\ e.meta = cache[i].meta
        /\ e.fresh = cache[i].fresh /\ e.uses = cache[i].uses - 1
    BY <2>2, <2>3 DEF Entry
  <2> HIDE DEF e
  <2>7. new \in [Slots -> Entry] /\ new[i] = e /\ \A j \in Slots : j # i => new[j] = cache[j]
    BY <1>1, <2>1, <2>6
  <2> HIDE DEF new
  <2>8. \A j \in Slots : /\ new[j].fd = cache[j].fd /\ new[j].path = cache[j].path
                         /\ new[j].fresh = cache[j].fresh /\ new[j].meta = cache[j].meta
    BY <2>6, <2>7
  <2>9. Apart(new, retired, conn) /\ Backed(open, new, retired, conn)
    BY <1>2, <2>8 DEF Apart, Backed
  <2>10. Counted(new, retired, now)
    <3>1. new[i].uses = Cardinality(Sharers(now, new[i].fd))
      BY <1>4, <2>1, <2>2, <2>6, <2>7
    <3>2. \A j \in Slots : j # i /\ new[j].fd >= 0 => new[j] = cache[j] /\ new[j].fd # d /\ new[j].fd \in Fds
      BY <1>2, <2>1, <2>7, SoundTypes DEF Apart
    <3>3. \A q \in Retired : retired[q].fd # NoFd => retired[q].fd # d /\ retired[q].fd \in Fds
      BY <1>2, <1>5, <2>1, SoundTypes DEF Apart
    <3> QED BY <1>2, <1>4, <3>1, <3>2, <3>3 DEF Counted
  <2>11. Sound(open, new, retired, now)
    BY <1>1, <1>6, <1>8, <1>9, <2>7, <2>9, <2>10 DEF Sound
  <2> QED BY <2>4, <2>5, <2>8, <2>11 DEF now, d
<1>11. CASE hit = {}
  <2>1. r.cache = cache
    BY <1>11 DEF Release
  <2>2. \A j \in Slots : cache[j].fd # d
    BY <1>11
  <2>3. \A j \in Slots : cache[j].fd >= 0 =>
            /\ cache[j].fd \in Fds
            /\ cache[j].uses = Cardinality(Sharers(now, cache[j].fd))
    BY <1>2, <1>4, <2>2, SoundTypes DEF Counted
  <2>4. CASE old = {}
    <3>1. r.open = open /\ r.retired = [q \in Retired |-> retired[q]]
      BY <1>11, <2>4 DEF Release
    <3>2. r.retired = retired
      BY <3>1, <1>1
    <3>3. Counted(cache, retired, now)
      BY <1>2, <1>4, <2>3, <2>4, SoundTypes DEF Counted
    <3>4. Sound(open, cache, retired, now)
      BY <1>1, <1>2, <1>6, <1>8, <1>9, <3>3 DEF Sound
    <3> QED BY <2>1, <3>1, <3>2, <3>4 DEF now, d
  <2>5. CASE old # {}
    <3> DEFINE q == Min(old)
               u == IF retired[q].uses > 0 THEN retired[q].uses - 1 ELSE 0
               less == [retired[q] EXCEPT !.uses = u]
    <3>1. q \in Retired /\ retired[q].fd = d
      <4>1. old \in SUBSET Nat
        BY Sizes
      <4> QED BY <4>1, <2>5, MinNat
    <3>2. /\ retired[q].uses = Cardinality(Sharers(conn, d)) /\ retired[q].uses > 0
          /\ retired[q].uses \in Nat /\ retired[q] \in Kept
      BY <1>1, <1>2, <1>5, <3>1, SoundTypes DEF Counted, NoFd
    <3>3. u = retired[q].uses - 1 /\ u \in 0 .. Cardinality(Conns)
          /\ u = Cardinality(Sharers(now, d))
      BY <1>4, <3>2, SharersCount
    <3>4. less \in Kept /\ less.fd = d /\ less.uses = u
      BY <3>1, <3>2, <3>3 DEF Kept
    <3>5. \A s \in Retired : s # q => retired[s].fd # d
      BY <1>2, <1>5, <3>1 DEF Apart, NoFd
    <3>6. /\ r.retired = [s \in Retired |-> IF s # q THEN retired[s]
                                            ELSE IF less.uses = 0 THEN NoRetired
                                            ELSE [retired[s] EXCEPT !.uses = IF retired[s].uses > 0
                                                                THEN retired[s].uses - 1 ELSE 0]]
          /\ r.open = IF less.uses = 0 THEN [open EXCEPT ![d] = Shut] ELSE open
      BY <1>11, <2>5 DEF Release
    <3> HIDE DEF q
    <3>7. CASE u = 0
      <4>1. NoRetired \in Kept /\ NoRetired.fd = NoFd
        BY Sizes DEF NoRetired, Kept
      <4>2. /\ r.retired \in [Retired -> Kept] /\ r.retired[q] = NoRetired
            /\ \A s \in Retired : s # q => r.retired[s] = retired[s]
        BY <1>1, <3>1, <3>4, <3>6, <3>7, <4>1
      <4>3. r.open = [open EXCEPT ![d] = Shut]
        BY <3>4, <3>6, <3>7
      <4>4. r.open \in [Fds -> Versions \cup {Shut}] /\ \A x \in Fds : x # d => r.open[x] = open[x]
        BY <1>1, <4>3
      <4> HIDE DEF r, u, less
      <4>5. \A e \in Conns : now[e].fd # NoFd => now[e].fd # d /\ now[e].fd \in Fds
        <5>1. Sharers(now, d) = {}
          BY <3>3, <3>7, SharersCount, FS_EmptySet
        <5>2. \A e \in Conns : conn[e].fd = d => ~conn[e].owned
          <6>1. \A e \in Conns : conn[e].fd = d /\ conn[e].owned => e = c
            BY <1>2, <1>5 DEF Apart, NoFd, d
          <6> QED BY <6>1
        <5> QED BY <1>7, <5>1, <5>2, SoundTypes DEF Sharers
      <4>6. Apart(cache, r.retired, conn)
        <5>1. \A s \in Retired : r.retired[s].fd # NoFd => s # q /\ r.retired[s] = retired[s]
          BY <4>1, <4>2
        <5>2. \A s \in Retired : r.retired[s].fd = NoFd \/ r.retired[s] = retired[s]
          BY <4>1, <4>2
        <5>3. \A i \in Slots : cache[i].fd >= 0 => cache[i].fd # NoFd
          BY DEF NoFd
        <5> QED BY <1>2, <5>1, <5>2, <5>3 DEF Apart
      <4>7. Backed(r.open, cache, r.retired, now)
        <5>1. \A s \in Retired : r.retired[s].fd # NoFd =>
                 r.retired[s] = retired[s] /\ retired[s].fd # d /\ retired[s].fd \in Fds
          BY <3>5, <4>1, <4>2, SoundTypes
        <5>2. \A e \in Conns : now[e].fd # NoFd => r.open[now[e].fd] = now[e].version
          BY <1>2, <1>7, <4>4, <4>5 DEF Backed
        <5> QED BY <1>2, <2>2, <2>3, <4>4, <5>1, <5>2 DEF Backed
      <4>8. Counted(cache, r.retired, now)
        <5>1. \A s \in Retired : r.retired[s].fd # NoFd =>
                 r.retired[s] = retired[s] /\ retired[s].fd # d /\ retired[s].fd \in Fds
          BY <3>5, <4>1, <4>2, SoundTypes
        <5> QED BY <1>2, <1>4, <2>3, <5>1 DEF Counted
      <4>9. Sound(r.open, cache, r.retired, now)
        BY <1>1, <1>6, <1>8, <4>2, <4>4, <4>6, <4>7, <4>8 DEF Sound
      <4>10. \A j \in Slots : cache[j].fd >= 0 => r.open[cache[j].fd] = open[cache[j].fd]
        BY <2>2, <2>3, <4>4
      <4> QED BY <2>1, <4>9, <4>10 DEF now, d, r
    <3>8. CASE u # 0
      <4>1. /\ r.retired \in [Retired -> Kept] /\ r.retired[q] = less
            /\ \A s \in Retired : s # q => r.retired[s] = retired[s]
        BY <1>1, <3>1, <3>4, <3>6, <3>8
      <4>2. r.open = open
        BY <3>4, <3>6, <3>8
      <4>3. u > 0
        BY <3>2, <3>3, <3>8
      <4> HIDE DEF r, u, less
      <4>4. \A s \in Retired : r.retired[s].fd = retired[s].fd
        BY <3>1, <3>4, <4>1
      <4>5. Apart(cache, r.retired, conn) /\ Backed(open, cache, r.retired, conn)
        BY <1>2, <4>4 DEF Apart, Backed
      <4>6. Counted(cache, r.retired, now)
        <5>1. \A s \in Retired : s # q /\ retired[s].fd # NoFd => retired[s].fd # d /\ retired[s].fd \in Fds
          BY <3>5, SoundTypes
        <5> QED BY <1>2, <1>4, <2>3, <3>1, <3>3, <3>4, <4>1, <4>3, <5>1 DEF Counted
      <4>7. Sound(open, cache, r.retired, now)
        BY <1>1, <1>6, <1>8, <1>9, <4>1, <4>5, <4>6 DEF Sound
      <4> QED BY <2>1, <4>2, <4>7 DEF now, d, r
    <3> QED BY <3>7, <3>8
  <2> QED BY <2>4, <2>5
<1> QED BY <1>10, <1>11

-----------------------------------------------------------------------------
(***************************************************************************)
(* The probe sequence.                                                     *)
(***************************************************************************)

\* file_cache_find returns the entry of the path, if the path has one.
LEMMA FindFacts ==
    ASSUME Chained, NEW p \in Paths
    PROVE  /\ \A i \in Find(p) : i \in Slots /\ Live(i) /\ cache[i].path = p
           /\ \A i \in Slots : Live(i) /\ cache[i].path = p => Find(p) = {i}
<1> DEFINE hits == {n \in Slots :
                      /\ cache[Probe(p, n)].fd >= 0 /\ cache[Probe(p, n)].path = p
                      /\ \A m \in 0 .. n - 1 : cache[Probe(p, m)].fd # Empty}
<1>1. hits \in SUBSET Nat /\ hits \subseteq Slots
  BY Sizes
<1>2. Find(p) = IF hits = {} THEN {} ELSE {Probe(p, Min(hits))}
  BY DEF Find
<1>3. \A n \in Slots : Probe(p, n) \in Slots
  BY ProbeInTable, Sizes
<1>4. \A n \in hits : Probe(p, n) \in Slots /\ Live(Probe(p, n)) /\ cache[Probe(p, n)].path = p
  BY <1>3 DEF Live
<1>5. ASSUME NEW i \in Slots, Live(i), cache[i].path = p PROVE Find(p) = {i}
  <2>1. OnPath(i)
    BY <1>5 DEF Chained
  <2>2. PICK n \in Slots : Probe(p, n) = i /\ \A m \in 0 .. n - 1 : cache[Probe(p, m)].fd # Empty
    BY <2>1, <1>5 DEF OnPath
  <2>3. n \in hits
    BY <2>2, <1>5 DEF Live
  <2> HIDE DEF hits
  <2>4. Min(hits) \in hits
    BY <1>1, <2>3, MinNat
  <2>5. Probe(p, Min(hits)) = i
    BY <2>4, <1>4, <1>5 DEF Chained
  <2> QED BY <1>2, <2>3, <2>5
<1> HIDE DEF hits
<1>6. ASSUME NEW i \in Find(p) PROVE i \in Slots /\ Live(i) /\ cache[i].path = p
  <2>1. hits # {} /\ i = Probe(p, Min(hits))
    BY <1>2, <1>6
  <2>2. Min(hits) \in hits
    BY <1>1, <2>1, MinNat
  <2> QED BY <2>1, <2>2, <1>4
<1> QED BY <1>5, <1>6

\* A path without an entry has none anywhere in the table.
LEMMA FindNone ==
    ASSUME Chained, NEW p \in Paths, Find(p) = {}
    PROVE  \A i \in Slots : Live(i) => cache[i].path # p
  BY FindFacts

\* While no slot becomes empty and no entry appears or changes its path, every
\* entry stays within reach.
LEMMA ChainKeeps ==
    ASSUME Chained,
           \A j \in Slots : cache'[j].fd = Empty => cache[j].fd = Empty,
           \A j \in Slots : cache'[j].fd >= 0 => cache[j].fd >= 0 /\ cache'[j].path = cache[j].path
    PROVE  Chained'
<1>1. \A i \in Slots : Live(i)' => Live(i) /\ cache'[i].path = cache[i].path
  BY DEF Live
<1>2. ASSUME NEW i \in Slots, Live(i)' PROVE OnPath(i)'
  <2>1. OnPath(i) /\ cache[i].path \in Paths /\ cache'[i].path = cache[i].path
    BY <1>1, <1>2 DEF Chained
  <2>2. PICK n \in Slots : /\ Probe(cache[i].path, n) = i
                           /\ \A m \in 0 .. n - 1 : cache[Probe(cache[i].path, m)].fd # Empty
    BY <2>1 DEF OnPath
  <2>3. ASSUME NEW m \in 0 .. n - 1 PROVE cache'[Probe(cache[i].path, m)].fd # Empty
    <3>1. m \in Nat
      BY Sizes
    <3>2. Probe(cache[i].path, m) \in Slots
      BY <2>1, <3>1, ProbeInTable
    <3> QED BY <2>2, <3>2
  <2> QED BY <2>1, <2>2, <2>3 DEF OnPath, Probe
<1>3. \A i \in Slots : Live(i)' => cache'[i].path \in Paths
  BY <1>1 DEF Chained
<1>4. \A i, j \in Slots : Live(i)' /\ Live(j)' /\ cache'[i].path = cache'[j].path => i = j
  BY <1>1 DEF Chained
<1> QED BY <1>2, <1>3, <1>4 DEF Chained

\* file_cache_store puts an entry where a probe for its path finds it: with no empty
\* slot before it, or none at all.
LEMMA StorePlace ==
    ASSUME NEW p \in Paths, NEW i \in StoreAt(p)
    PROVE  /\ i \in Slots /\ cache[i].fd \in {Empty, Tombstone}
           /\ \E n \in Slots : /\ Probe(p, n) = i
                               /\ \A m \in 0 .. n - 1 : cache[Probe(p, m)].fd # Empty
<1> DEFINE free == {n \in Slots : cache[Probe(p, n)].fd = Empty}
           dead == {n \in Slots : cache[Probe(p, n)].fd = Tombstone}
<1>1. free \in SUBSET Nat /\ dead \in SUBSET Nat
  BY Sizes
<1>2. \A n \in Slots : Probe(p, n) \in Slots
  BY ProbeInTable, Sizes
<1>3. CASE free # {}
  <2>1. i = Probe(p, Min(free))
    BY <1>3 DEF StoreAt
  <2>2. Min(free) \in free /\ \A y \in free : Min(free) <= y
    BY <1>1, <1>3, MinNat
  <2> DEFINE n == Min(free)
  <2>3. n \in Slots /\ cache[Probe(p, n)].fd = Empty
    BY <2>2
  <2>4. ASSUME NEW m \in 0 .. n - 1 PROVE cache[Probe(p, m)].fd # Empty
    <3>1. m \in Slots /\ ~(n <= m)
      BY <2>3, Sizes DEF Slots
    <3> QED BY <2>2, <3>1
  <2> QED BY <1>2, <2>1, <2>3, <2>4
<1>4. CASE free = {} /\ dead # {}
  <2>1. i = Probe(p, Min(dead))
    BY <1>4 DEF StoreAt
  <2>2. Min(dead) \in dead
    BY <1>1, <1>4, MinNat
  <2> DEFINE n == Min(dead)
  <2>3. n \in Slots /\ cache[Probe(p, n)].fd = Tombstone
    BY <2>2
  <2>4. ASSUME NEW m \in 0 .. n - 1 PROVE cache[Probe(p, m)].fd # Empty
    <3>1. m \in Slots
      BY <2>3, Sizes DEF Slots
    <3> QED BY <1>4, <3>1
  <2> QED BY <1>2, <2>1, <2>3, <2>4
<1>5. CASE free = {} /\ dead = {}
  BY <1>5 DEF StoreAt
<1> QED BY <1>3, <1>4, <1>5

\* After file_cache_store every entry, the new one too, is within reach.
LEMMA ChainStore ==
    ASSUME Chained, NEW p \in Paths, NEW i \in StoreAt(p),
           \A j \in Slots : Live(j) => cache[j].path # p,
           \A j \in Slots : j # i => cache'[j].fd = cache[j].fd /\ cache'[j].path = cache[j].path,
           cache'[i].path = p, cache'[i].fd >= 0, cache'[i].fd # Empty
    PROVE  Chained'
<1>1. PICK n \in Slots : Probe(p, n) = i /\ \A m \in 0 .. n - 1 : cache[Probe(p, m)].fd # Empty
  BY StorePlace
<1>2. \A j \in Slots : cache'[j].fd = Empty => cache[j].fd = Empty
  OBVIOUS
<1>3. \A j \in Slots : j # i => (Live(j)' <=> Live(j))
  BY DEF Live
<1>4. ASSUME NEW q \in Paths, NEW k \in Slots,
             \A m \in 0 .. k - 1 : cache[Probe(q, m)].fd # Empty
      PROVE  \A m \in 0 .. k - 1 : cache'[Probe(q, m)].fd # Empty
  <2>1. ASSUME NEW m \in 0 .. k - 1 PROVE cache'[Probe(q, m)].fd # Empty
    <3>1. m \in Nat
      BY Sizes
    <3>2. Probe(q, m) \in Slots
      BY <3>1, ProbeInTable
    <3> QED BY <1>2, <1>4, <3>2
  <2> QED BY <2>1
<1>5. ASSUME NEW j \in Slots, Live(j)' PROVE OnPath(j)'
  <2>1. CASE j = i
    BY <1>1, <1>4, <2>1 DEF OnPath, Probe
  <2>2. CASE j # i
    <3>1. OnPath(j) /\ cache[j].path \in Paths /\ cache'[j].path = cache[j].path
      BY <1>3, <1>5, <2>2 DEF Chained
    <3>2. PICK k \in Slots : /\ Probe(cache[j].path, k) = j
                             /\ \A m \in 0 .. k - 1 : cache[Probe(cache[j].path, m)].fd # Empty
      BY <3>1 DEF OnPath
    <3> QED BY <1>4, <3>1, <3>2 DEF OnPath, Probe
  <2> QED BY <2>1, <2>2
<1>6. \A j \in Slots : Live(j)' => cache'[j].path \in Paths
  BY <1>3 DEF Chained
<1>7. \A j, k \in Slots : Live(j)' /\ Live(k)' /\ cache'[j].path = cache'[k].path => j = k
  BY <1>3 DEF Chained
<1> QED BY <1>5, <1>6, <1>7 DEF Chained

-----------------------------------------------------------------------------
(***************************************************************************)
(* The invariant holds initially and every action keeps it.                *)
(***************************************************************************)

\* CacheInv holds at the start.
LEMMA InitInv == Init => CacheInv
<1> SUFFICES ASSUME Init PROVE CacheInv
  OBVIOUS
<1> USE DEF Init
<1>1. NoEntry \in Entry /\ ~(NoEntry.fd >= 0)
  <2>1. 0 \in 0 .. Cardinality(Conns) /\ Gone \in Versions
    BY Sizes
  <2> QED BY <2>1 DEF NoEntry, Entry, Empty
<1>2. NoRetired \in Kept /\ NoRetired.fd = NoFd /\ NoFile \in Sent /\ NoFile.fd = NoFd
  <2>1. 0 \in 0 .. Cardinality(Conns) /\ Gone \in Versions
    BY Sizes
  <2> QED BY <2>1 DEF NoRetired, Kept, NoFile, Sent
<1>3. /\ open \in [Fds -> Versions \cup {Shut}] /\ cache \in [Slots -> Entry]
      /\ retired \in [Retired -> Kept] /\ conn \in [Conns -> Sent]
  BY <1>1, <1>2
<1>4. /\ \A i \in Slots : ~(cache[i].fd >= 0)
      /\ \A r \in Retired : retired[r].fd = NoFd
      /\ \A c \in Conns : conn[c].fd = NoFd
  BY <1>1, <1>2
<1>5. Sound(open, cache, retired, conn)
  BY <1>3, <1>4 DEF Sound, Apart, Backed, Counted
<1>6. Chained /\ EditShowsUp
  BY <1>4 DEF Chained, Live, EditShowsUp, Sending
<1>7. Newer
  <2>1. Gone \in Versions /\ 0 \in Versions /\ Gone <= 0
    BY Sizes DEF Gone
  <2> QED BY <1>4, <2>1 DEF Newer, Live
<1>8. Serving
  BY DEF Serving
<1> QED BY <1>5, <1>6, <1>7, <1>8 DEF CacheInv

\* A request that is being served may go on relying on what it relies on when only
\* files change, and get newer.
LEMMA ServingKeeps ==
    ASSUME Serving, UNCHANGED <<cache, conn, step>>, written \in Nat, written' \in Nat,
           written <= written',
           \A q \in Paths : fs'[q] = Gone \/ fs'[q] = fs[q] \/ (fs'[q] \in Nat /\ fs'[q] > written)
    PROVE  Serving'
<1>1. \A c, p, i : Looking(c, p, i)' <=> Looking(c, p, i)
  BY DEF Looking, Live
<1>2. CASE step \in {Idle, [at |-> "exited"]}
  BY <1>2 DEF Serving
<1>3. CASE \E c \in Conns, p \in Paths, i \in Slots :
             step = [at |-> "stat", c |-> c, p |-> p, i |-> i] /\ Looking(c, p, i)
  BY <1>1, <1>3 DEF Serving
<1>4. CASE \E c \in Conns, p \in Paths, i \in Slots, st \in Versions :
             /\ step = [at |-> "reopen", c |-> c, p |-> p, i |-> i, st |-> st]
             /\ Looking(c, p, i)
             /\ fs[p] = Gone \/ fs[p] >= st
             /\ st <= written
  <2>1. PICK c \in Conns, p \in Paths, i \in Slots, st \in Versions :
             /\ step = [at |-> "reopen", c |-> c, p |-> p, i |-> i, st |-> st]
             /\ Looking(c, p, i)
             /\ fs[p] = Gone \/ fs[p] >= st
             /\ st <= written
    BY <1>4
  <2>2. st \in Nat
    BY Sizes
  <2>3. (fs'[p] = Gone \/ fs'[p] >= st) /\ st <= written'
    BY <2>1, <2>2
  <2>4. Looking(c, p, i)' /\ step' = [at |-> "reopen", c |-> c, p |-> p, i |-> i, st |-> st]
    BY <1>1, <2>1
  <2> QED BY <2>3, <2>4 DEF Serving
<1>5. CASE \E c \in Conns, p \in Paths :
             /\ step = [at |-> "open", c |-> c, p |-> p]
             /\ conn[c].fd = NoFd
             /\ \A i \in Slots : Live(i) => cache[i].path # p
  BY <1>5 DEF Serving, Live
<1> QED BY <1>2, <1>3, <1>4, <1>5 DEF Serving

\* Other processes write and remove files.
LEMMA WriteFileStep ==
    ASSUME CacheInv, NEW p \in Paths, WriteFile(p)
    PROVE  CacheInv'
<1> USE DEF CacheInv, WriteFile
<1>1. Sound(open, cache, retired, conn)' /\ EditShowsUp'
  BY DEF EditShowsUp, Sending
<1>2. Chained'
  BY DEF Chained, Live, OnPath, Probe
<1>3. /\ written \in Nat /\ written + 1 \in Versions /\ written + 1 \in Nat
      /\ fs \in [Paths -> Versions] /\ seen \in [Paths -> Versions]
  BY Sizes DEF Newer, Versions
<1>4. \A q \in Paths : fs[q] \in Nat /\ seen[q] \in Nat
  BY <1>3, Sizes
<1>5. fs'[p] = written + 1 /\ \A q \in Paths : q # p => fs'[q] = fs[q]
  BY <1>3
<1>6. Newer'
  <2>1. fs' \in [Paths -> Versions] /\ written' \in Versions
    BY <1>3
  <2>2. \A q \in Paths : fs'[q] <= written' /\ seen[q] <= written'
    BY <1>3, <1>4, <1>5 DEF Newer
  <2>3. \A q \in Paths : fs'[q] = Gone \/ fs'[q] >= seen[q]
    BY <1>3, <1>4, <1>5 DEF Newer
  <2> QED BY <1>3, <2>1, <2>2, <2>3 DEF Newer, Live
<1>7. Serving'
  <2>1. written <= written' /\ \A q \in Paths : fs'[q] = fs[q] \/ (fs'[q] \in Nat /\ fs'[q] > written)
    BY <1>3, <1>5
  <2> QED BY <1>3, <2>1, ServingKeeps
<1> QED BY <1>1, <1>2, <1>6, <1>7

\* A file is removed.
LEMMA RemoveFileStep ==
    ASSUME CacheInv, NEW p \in Paths, RemoveFile(p)
    PROVE  CacheInv'
<1> USE DEF CacheInv, RemoveFile
<1>1. Sound(open, cache, retired, conn)' /\ EditShowsUp'
  BY DEF EditShowsUp, Sending
<1>2. Chained'
  BY DEF Chained, Live, OnPath, Probe
<1>3. fs \in [Paths -> Versions] /\ written \in Nat
  BY Sizes DEF Newer
<1>4. fs'[p] = Gone /\ \A q \in Paths : q # p => fs'[q] = fs[q]
  BY <1>3
<1>5. Newer'
  <2>1. fs' \in [Paths -> Versions] /\ Gone <= written
    BY <1>3, Sizes DEF Gone
  <2> QED BY <1>4, <2>1 DEF Newer, Live
<1>6. Serving'
  <2>1. \A q \in Paths : fs'[q] = Gone \/ fs'[q] = fs[q]
    BY <1>4
  <2> QED BY <1>3, <2>1, ServingKeeps
<1> QED BY <1>1, <1>2, <1>5, <1>6

\* The recheck interval of an entry runs out.
LEMMA DueStep ==
    ASSUME CacheInv, NEW i \in Slots, Due(i)
    PROVE  CacheInv'
<1> USE DEF CacheInv
<1> DEFINE e == [cache[i] EXCEPT !.fresh = FALSE]
<1>1. cache \in [Slots -> Entry] /\ cache[i] \in Entry
  BY DEF Sound
<1>2. /\ e \in Entry /\ e.fd = cache[i].fd /\ e.path = cache[i].path
      /\ e.meta = cache[i].meta /\ e.uses = cache[i].uses /\ e.fresh = FALSE
  BY <1>1 DEF Entry
<1>3. cache' = [cache EXCEPT ![i] = e]
  BY <1>1 DEF Due
<1> HIDE DEF e
<1>4. cache' \in [Slots -> Entry] /\ cache'[i] = e /\ \A j \in Slots : j # i => cache'[j] = cache[j]
  BY <1>1, <1>2, <1>3
<1>5. \A j \in Slots : /\ cache'[j].fd = cache[j].fd /\ cache'[j].path = cache[j].path
                       /\ cache'[j].meta = cache[j].meta /\ cache'[j].uses = cache[j].uses
                       /\ cache'[j].fresh => cache[j].fresh
  BY <1>2, <1>4
<1>6. UNCHANGED <<fs, written, open, retired, conn, step, seen>> /\ step = Idle
  BY DEF Due
<1>7. Sound(open, cache, retired, conn)'
  <2>1. Apart(cache', retired, conn)
    BY <1>5 DEF Sound, Apart
  <2>2. Backed(open, cache', retired, conn)
    BY <1>5 DEF Sound, Backed
  <2>3. Counted(cache', retired, conn)
    BY <1>5 DEF Sound, Counted
  <2> QED BY <1>4, <1>6, <2>1, <2>2, <2>3 DEF Sound
<1>8. Chained'
  BY <1>5, ChainKeeps
<1>9. Newer'
  BY <1>5, <1>6 DEF Newer, Live
<1>10. Serving' /\ EditShowsUp'
  BY <1>6 DEF Serving, EditShowsUp, Sending
<1> QED BY <1>7, <1>8, <1>9, <1>10

\* A connection that is armed with a new enough file, the others as they were.
LEMMA ArmShows ==
    ASSUME EditShowsUp, conn \in [Conns -> Sent], NEW c \in Conns, NEW s,
           conn' = [conn EXCEPT ![c] = s], s.version >= s.atLeast
    PROVE  EditShowsUp'
<1>1. conn'[c] = s /\ \A e \in Conns : e # c => conn'[e] = conn[e]
  OBVIOUS
<1> QED BY <1>1 DEF EditShowsUp, Sending

\* Only the use count of an entry changes when it is held.
LEMMA HoldKeeps ==
    ASSUME NEW ca \in [Slots -> Entry], NEW i \in Slots
    PROVE  \A j \in Slots : /\ Hold(i, ca)[j].fd = ca[j].fd /\ Hold(i, ca)[j].path = ca[j].path
                            /\ Hold(i, ca)[j].fresh = ca[j].fresh
<1>1. ca[i] \in Entry
  OBVIOUS
<1>2. LET e == [ca[i] EXCEPT !.uses = ca[i].uses + 1]
      IN  e.fd = ca[i].fd /\ e.path = ca[i].path /\ e.fresh = ca[i].fresh
  BY <1>1 DEF Entry
<1>3. Hold(i, ca)[i] = [ca[i] EXCEPT !.uses = ca[i].uses + 1]
  BY DEF Hold
<1>4. \A j \in Slots : j # i => Hold(i, ca)[j] = ca[j]
  BY DEF Hold
<1> QED BY <1>2, <1>3, <1>4

\* A connection shares the entry i of its path in the table ca, which differs from
\* the cache at most in how fresh i is.
LEMMA ShareStep ==
    ASSUME CacheInv, NEW c \in Conns, conn[c].fd = NoFd, NEW p \in Paths,
           NEW i \in Slots, Live(i), cache[i].path = p,
           NEW b \in BOOLEAN, NEW ca, ca = [cache EXCEPT ![i] = [cache[i] EXCEPT !.fresh = b]],
           open[cache[i].fd] >= seen[p],
           cache' = Hold(i, ca), Arm(c, cache[i].fd, cache[i].meta, FALSE, open, seen[p]),
           step' = Idle, UNCHANGED <<fs, written, open, retired, seen>>
    PROVE  CacheInv'
<1> DEFINE f == [cache[i] EXCEPT !.fresh = b]
           s == [fd |-> cache[i].fd, owned |-> FALSE, size |-> cache[i].meta,
                 version |-> open[cache[i].fd], atLeast |-> seen[p]]
<1> USE DEF CacheInv
<1>1. cache \in [Slots -> Entry] /\ cache[i] \in Entry /\ conn \in [Conns -> Sent]
  BY DEF Sound
<1>2. /\ f \in Entry /\ f.fd = cache[i].fd /\ f.path = cache[i].path
      /\ f.meta = cache[i].meta /\ f.uses = cache[i].uses
  BY <1>1 DEF Entry
<1> HIDE DEF f
<1>3. ca \in [Slots -> Entry] /\ ca[i] = f /\ \A j \in Slots : j # i => ca[j] = cache[j]
  BY <1>1, <1>2 DEF f
<1>4. \A j \in Slots : /\ ca[j].fd = cache[j].fd /\ ca[j].path = cache[j].path
                       /\ ca[j].meta = cache[j].meta /\ ca[j].uses = cache[j].uses
  BY <1>2, <1>3
<1>5. Sound(open, ca, retired, conn)
  <2>1. Apart(ca, retired, conn)
    BY <1>4 DEF Sound, Apart
  <2>2. Backed(open, ca, retired, conn)
    BY <1>4 DEF Sound, Backed
  <2>3. Counted(ca, retired, conn)
    BY <1>4 DEF Sound, Counted
  <2> QED BY <1>3, <2>1, <2>2, <2>3 DEF Sound
<1>6. s \in Sent
  <2>1. cache[i].fd \in Fds /\ cache[i].meta \in Versions
    BY SoundTypes DEF Live
  <2>2. open[cache[i].fd] \in Versions
    <3>1. open[cache[i].fd] \in Versions \cup {Shut}
      BY <2>1 DEF Sound
    <3>2. seen[p] \in Nat
      BY Sizes DEF Newer
    <3> QED BY <3>1, <3>2 DEF Shut
  <2>3. seen[p] \in Versions
    BY DEF Newer
  <2> QED BY <2>1, <2>2, <2>3 DEF Sent
<1>7. conn' = [conn EXCEPT ![c] = s]
  BY DEF Arm
<1>8. Sound(open, cache, retired, conn)'
  <2>1. s.fd = ca[i].fd /\ ~s.owned /\ s.version = open[ca[i].fd] /\ ca[i].fd >= 0
    BY <1>4 DEF Live
  <2>2. Sound(open, Hold(i, ca), retired, [conn EXCEPT ![c] = s])
    BY <1>5, <1>6, <2>1, ShareIsSound
  <2> QED BY <1>7, <2>2
<1>9. \A j \in Slots : /\ cache'[j].fd = cache[j].fd /\ cache'[j].path = cache[j].path
                       /\ j # i => cache'[j].fresh = cache[j].fresh
  <2>1. \A j \in Slots : /\ Hold(i, ca)[j].fd = ca[j].fd /\ Hold(i, ca)[j].path = ca[j].path
                         /\ Hold(i, ca)[j].fresh = ca[j].fresh
    BY <1>3, HoldKeeps
  <2>2. \A j \in Slots : j # i => ca[j].fresh = cache[j].fresh
    BY <1>3
  <2> HIDE DEF CacheInv
  <2>3. \A j \in Slots : cache'[j] = Hold(i, ca)[j]
    OBVIOUS
  <2> TAKE j \in Slots
  <2>4. cache'[j].fd = cache[j].fd /\ cache'[j].path = cache[j].path
    BY <1>4, <2>1, <2>3, Zenon
  <2>5. ASSUME j # i PROVE cache'[j].fresh = cache[j].fresh
    BY <2>1, <2>2, <2>3, <2>5, Zenon
  <2> QED BY <2>4, <2>5
<1>10. Chained'
  BY <1>9, ChainKeeps
<1>11. Newer'
  <2>1. \A j \in Slots : cache'[j].fd >= 0 /\ cache'[j].fresh => open[cache'[j].fd] >= seen[cache'[j].path]
    BY <1>9 DEF Newer, Live
  <2> QED BY <2>1 DEF Newer, Live
<1>12. Serving' /\ EditShowsUp'
  <2>1. s.version >= s.atLeast
    OBVIOUS
  <2> QED BY <1>1, <1>7, <2>1, ArmShows DEF Serving
<1> QED BY <1>8, <1>10, <1>11, <1>12

\* A request begins.
LEMMA ServeStep ==
    ASSUME CacheInv, NEW c \in Conns, NEW p \in Paths, Serve(c, p)
    PROVE  CacheInv'
<1> USE DEF CacheInv
<1>1. conn[c].fd = NoFd /\ step = Idle /\ UNCHANGED <<fs, written, open, retired>>
  BY DEF Serve
<1>2. /\ seen \in [Paths -> Versions] /\ fs \in [Paths -> Versions] /\ written \in Versions
      /\ \A q \in Paths : fs[q] \in Nat /\ seen[q] \in Nat
  BY Sizes DEF Newer
\* The two ways to look at the path: no entry within its interval has it.
<1>3. ASSUME seen' = [seen EXCEPT ![p] = fs[p]], UNCHANGED <<cache, conn>>,
             \A j \in Slots : Live(j) /\ cache[j].fresh => cache[j].path # p
      PROVE  Sound(open, cache, retired, conn)' /\ Chained' /\ Newer' /\ EditShowsUp'
  <2>1. Sound(open, cache, retired, conn)' /\ EditShowsUp'
    BY <1>1, <1>3 DEF EditShowsUp, Sending
  <2>2. Chained'
    BY <1>3, ChainKeeps
  <2>3. seen'[p] = fs[p] /\ (\A q \in Paths : q # p => seen'[q] = seen[q]) /\ seen' \in [Paths -> Versions]
    BY <1>2, <1>3
  <2>4. \A q \in Paths : fs[q] <= written /\ seen'[q] <= written /\ (fs[q] = Gone \/ fs[q] >= seen'[q])
    BY <1>2, <2>3 DEF Newer
  <2>5. \A j \in Slots : Live(j) /\ cache[j].fresh => open[cache[j].fd] >= seen'[cache[j].path]
    BY <1>3, <2>3 DEF Newer, Chained
  <2> QED BY <1>1, <1>2, <1>3, <2>1, <2>2, <2>3, <2>4, <2>5 DEF Newer, Live
<1>4. CASE /\ Find(p) = {}
           /\ seen' = [seen EXCEPT ![p] = fs[p]]
           /\ step' = [at |-> "open", c |-> c, p |-> p]
           /\ UNCHANGED <<cache, conn>>
  <2>1. \A i \in Slots : Live(i) => cache[i].path # p
    BY <1>4, FindNone
  <2>2. Serving'
    BY <1>1, <1>4, <2>1 DEF Serving, Live
  <2> QED BY <1>3, <1>4, <2>1, <2>2
<1>5. ASSUME NEW i \in Find(p), ~cache[i].fresh,
             seen' = [seen EXCEPT ![p] = fs[p]],
             step' = [at |-> "stat", c |-> c, p |-> p, i |-> i],
             UNCHANGED <<cache, conn>>
      PROVE  CacheInv'
  <2>1. i \in Slots /\ Live(i) /\ cache[i].path = p
    BY FindFacts
  <2>2. \A j \in Slots : Live(j) /\ cache[j].fresh => cache[j].path # p
    BY <1>5, <2>1 DEF Chained
  <2>3. Looking(c, p, i)'
    BY <1>1, <1>5, <2>1 DEF Looking, Live
  <2>4. Serving'
    BY <1>5, <2>1, <2>3 DEF Serving
  <2> QED BY <1>3, <1>5, <2>2, <2>4
<1>6. ASSUME NEW i \in Find(p), cache[i].fresh, cache' = Hold(i, cache),
             Arm(c, cache[i].fd, cache[i].meta, FALSE, open, seen[p]), UNCHANGED <<step, seen>>
      PROVE  CacheInv'
  <2>1. i \in Slots /\ Live(i) /\ cache[i].path = p
    BY FindFacts
  <2>2. cache = [cache EXCEPT ![i] = [cache[i] EXCEPT !.fresh = TRUE]]
    <3>1. cache \in [Slots -> Entry] /\ cache[i] \in Entry
      BY <2>1 DEF Sound
    <3>2. cache[i].fresh = TRUE
      BY <1>6, <3>1 DEF Entry
    <3>3. [cache[i] EXCEPT !.fresh = TRUE] = cache[i]
      BY <3>1, <3>2 DEF Entry
    <3> QED BY <3>1, <3>3
  <2>3. open[cache[i].fd] >= seen[p]
    BY <1>6, <2>1 DEF Newer
  <2> QED BY <1>1, <1>6, <2>1, <2>2, <2>3, ShareStep
<1> QED BY <1>4, <1>5, <1>6 DEF Serve

\* The entry of a path that is gone, or cannot be opened, is dropped, and the request
\* goes on without one.
LEMMA DropStep ==
    ASSUME CacheInv, NEW c \in Conns, NEW p \in Paths, NEW i \in Slots, Looking(c, p, i),
           DropEntry(i), step' = [at |-> "open", c |-> c, p |-> p],
           UNCHANGED <<fs, written, conn, seen>>
    PROVE  CacheInv'
<1> USE DEF CacheInv
<1> DEFINE gone == [NoEntry EXCEPT !.fd = Tombstone]
           r == Retire(open, cache[i].fd, cache[i].uses)
<1>1. cache[i].fd >= 0 /\ cache[i].path = p /\ conn[c].fd = NoFd
  BY DEF Looking, Live
<1>2. cache' = [cache EXCEPT ![i] = gone] /\ open' = r.open /\ retired' = r.retired
  BY DEF DropEntry
<1>3. /\ Sound(r.open, [cache EXCEPT ![i] = gone], r.retired, conn)
      /\ \A d \in Fds : d # cache[i].fd => r.open[d] = open[d]
  BY <1>1, DropIsSound
<1> HIDE DEF r
<1>4. Sound(open, cache, retired, conn)'
  BY <1>2, <1>3
<1>5. gone.fd = Tombstone /\ ~(gone.fd >= 0) /\ gone.fd # Empty
  BY DEF NoEntry, Tombstone, Empty
<1> HIDE DEF gone
<1>6. cache'[i] = gone /\ \A j \in Slots : j # i => cache'[j] = cache[j]
  <2>1. cache \in [Slots -> Entry]
    BY DEF Sound
  <2> QED BY <1>2, <2>1
<1>7. \A j \in Slots : cache'[j].fd >= 0 => j # i /\ cache'[j] = cache[j]
  BY <1>5, <1>6
<1>8. Chained'
  <2>1. \A j \in Slots : cache'[j].fd = Empty => cache[j].fd = Empty
    BY <1>5, <1>6
  <2> QED BY <1>7, <2>1, ChainKeeps
<1>9. Newer'
  <2>1. \A j \in Slots : cache'[j].fd >= 0 => open'[cache'[j].fd] = open[cache[j].fd]
    <3>1. \A j \in Slots : j # i /\ cache[j].fd >= 0 => cache[j].fd # cache[i].fd /\ cache[j].fd \in Fds
      BY SoundTypes DEF Sound, Apart
    <3> QED BY <1>2, <1>3, <1>7, <3>1
  <2> QED BY <1>7, <2>1 DEF Newer, Live
<1>10. Serving'
  <2>1. \A j \in Slots : cache'[j].fd >= 0 => cache'[j].path # p
    BY <1>1, <1>7 DEF Chained, Live
  <2> QED BY <1>1, <2>1 DEF Serving, Live
<1>11. EditShowsUp'
  BY DEF EditShowsUp, Sending
<1> QED BY <1>4, <1>8, <1>9, <1>10, <1>11

\* fstatat on the entry's path.
LEMMA StatStep ==
    ASSUME CacheInv, Stat
    PROVE  CacheInv'
<1> USE DEF CacheInv
<1>1. PICK c \in Conns, p \in Paths, i \in Slots :
          step = [at |-> "stat", c |-> c, p |-> p, i |-> i] /\ Looking(c, p, i)
  BY DEF Stat, Serving, Idle
<1>2. step.c = c /\ step.p = p /\ step.i = i
  BY <1>1
<1>3. UNCHANGED <<fs, written, seen>>
  BY DEF Stat
<1>4. conn[c].fd = NoFd /\ Live(i) /\ cache[i].path = p
  BY <1>1 DEF Looking
<1>5. CASE /\ DropEntry(i)
           /\ step' = [at |-> "open", c |-> c, p |-> p]
           /\ UNCHANGED conn
  BY <1>1, <1>3, <1>5, DropStep
<1>6. CASE /\ fs[p] # Gone
           /\ fs[p] = cache[i].meta
           /\ cache' = Hold(i, [cache EXCEPT ![i].fresh = TRUE])
           /\ Arm(c, cache[i].fd, cache[i].meta, FALSE, open, seen[p])
           /\ step' = Idle
           /\ UNCHANGED <<open, retired>>
  <2> DEFINE ca == [cache EXCEPT ![i] = [cache[i] EXCEPT !.fresh = TRUE]]
  <2>1. cache' = Hold(i, ca)
    BY <1>6
  <2>2. open[cache[i].fd] >= seen[p]
    <3>1. open[cache[i].fd] >= cache[i].meta /\ open[cache[i].fd] \in Int
      BY <1>4, SoundTypes DEF Sound, Backed, Live
    <3>2. fs[p] >= seen[p] /\ fs[p] \in Nat /\ seen[p] \in Nat
      BY <1>6, Sizes DEF Newer
    <3> QED BY <1>6, <3>1, <3>2
  <2>3. TRUE \in BOOLEAN
    OBVIOUS
  <2> HIDE DEF ca
  <2> QED BY <1>3, <1>4, <1>6, <2>1, <2>2, <2>3, ShareStep DEF ca
<1>7. CASE /\ step' = [at |-> "reopen", c |-> c, p |-> p, i |-> i, st |-> fs[p]]
           /\ UNCHANGED <<open, cache, retired, conn>>
  <2>1. Sound(open, cache, retired, conn)' /\ EditShowsUp'
    BY <1>7 DEF EditShowsUp, Sending
  <2>2. Chained'
    BY <1>7, ChainKeeps
  <2>3. Newer'
    BY <1>3, <1>7 DEF Newer, Live
  <2>4. Serving'
    <3>1. fs[p] \in Versions /\ fs[p] <= written /\ fs[p] >= fs[p]
      <4>1. fs[p] \in Versions /\ fs[p] <= written
        BY DEF CacheInv, Newer
      <4>2. fs[p] \in Nat
        BY <4>1, Sizes
      <4> QED BY <4>1, <4>2
    <3>2. Looking(c, p, i)'
      BY <1>1, <1>7 DEF Looking, Live
    <3> QED BY <1>3, <1>7, <3>1, <3>2 DEF Serving
  <2> QED BY <2>1, <2>2, <2>3, <2>4
<1> QED BY <1>2, <1>5, <1>6, <1>7 DEF Stat, IsReg

\* A descriptor d just opened on version v of p is put in the slot i of the sound
\* table ca, and the connection shares it.
LEMMA PutAndShare ==
    ASSUME NEW o, NEW ca, NEW re, Sound(o, ca, re, conn), NEW i \in Slots, ~(ca[i].fd >= 0),
           NEW d \in Fds, o[d] = Shut, NEW v \in Versions, NEW m \in Versions, m <= v,
           NEW p \in Paths, NEW a \in Versions, NEW c \in Conns, conn[c].fd = NoFd,
           NEW e, e = [fd |-> d, path |-> p, meta |-> m, fresh |-> TRUE, uses |-> 0],
           NEW s, s = [fd |-> d, owned |-> FALSE, size |-> m, version |-> v, atLeast |-> a]
    PROVE  Sound([o EXCEPT ![d] = v], Hold(i, [ca EXCEPT ![i] = e]), re, [conn EXCEPT ![c] = s])
<1> DEFINE new == [ca EXCEPT ![i] = e]
           tab == [o EXCEPT ![d] = v]
<1>1. e \in Entry /\ e.fd = d /\ e.uses = 0 /\ e.meta = m
  <2>1. 0 \in 0 .. Cardinality(Conns)
    BY Sizes
  <2> QED BY <2>1 DEF Entry
<1>2. s \in Sent /\ s.fd = d /\ ~s.owned /\ s.version = v
  BY DEF Sent
<1>3. Sound(tab, new, re, conn)
  BY <1>1, PutIsSound
<1>4. new[i] = e /\ tab[d] = v /\ e.fd >= 0
  <2>1. o \in [Fds -> Versions \cup {Shut}] /\ ca \in [Slots -> Entry]
    BY DEF Sound
  <2>2. d \in Nat
    BY Sizes
  <2> QED BY <1>1, <2>1, <2>2
<1> HIDE DEF new, tab
<1>5. Sound(tab, Hold(i, new), re, [conn EXCEPT ![c] = s])
  BY <1>1, <1>2, <1>3, <1>4, ShareIsSound
<1> QED BY <1>5 DEF new, tab

\* The path is opened again.
LEMMA ReopenStep ==
    ASSUME CacheInv, Reopen
    PROVE  CacheInv'
<1> USE DEF CacheInv
<1>1. PICK c \in Conns, p \in Paths, i \in Slots, st \in Versions :
          /\ step = [at |-> "reopen", c |-> c, p |-> p, i |-> i, st |-> st]
          /\ Looking(c, p, i)
          /\ fs[p] = Gone \/ fs[p] >= st
  BY DEF Reopen, Serving, Idle
<1>2. step.c = c /\ step.p = p /\ step.i = i /\ step.st = st
  BY <1>1
<1>3. UNCHANGED <<fs, written, seen>>
  BY DEF Reopen
<1>4. conn[c].fd = NoFd /\ cache[i].fd >= 0 /\ cache[i].path = p
  BY <1>1 DEF Looking, Live
<1>5. CASE /\ DropEntry(i)
           /\ step' = [at |-> "open", c |-> c, p |-> p]
           /\ UNCHANGED conn
  BY <1>1, <1>3, <1>5, DropStep
<1> DEFINE d == Min(FreeFds)
           v == fs[p]
           x == cache[i].fd
           u == cache[i].uses
           r == Retire([open EXCEPT ![d] = v], x, u)
           e == [fd |-> d, path |-> p, meta |-> st, fresh |-> TRUE, uses |-> 0]
           s == [fd |-> d, owned |-> FALSE, size |-> st, version |-> v, atLeast |-> seen[p]]
<1>6. CASE /\ v # Gone /\ FreeFds # {}
           /\ open' = r.open
           /\ retired' = r.retired
           /\ cache' = Hold(i, [cache EXCEPT ![i] =
                         [fd |-> d, path |-> cache[i].path, meta |-> st, fresh |-> TRUE, uses |-> 0]])
           /\ Arm(c, d, st, FALSE, r.open, seen[p])
           /\ step' = Idle
  <2> DEFINE q == Retire(open, x, u)
             ca == [cache EXCEPT ![i] = [NoEntry EXCEPT !.fd = Tombstone]]
             new == [cache EXCEPT ![i] = e]
  <2>1. d \in Fds /\ open[d] = Shut
    BY <1>6, LowestFree
  <2>2. x \in Fds /\ u \in Nat /\ d # x
    BY <1>4, <2>1, SoundTypes, FreeIsUnheld
  <2>3. Sound(q.open, ca, q.retired, conn) /\ \A y \in Fds : y # x => q.open[y] = open[y]
    BY <1>4, DropIsSound
  <2>4. /\ open \in [Fds -> Versions \cup {Shut}] /\ cache \in [Slots -> Entry]
        /\ conn \in [Conns -> Sent] /\ cache[i] \in Entry
    BY DEF Sound
  <2>5. r.open = [q.open EXCEPT ![d] = v] /\ r.retired = q.retired
    \* Opening the new descriptor and retiring the old one commute.
    <3> DEFINE room == {k \in Retired : retired[k].fd = NoFd}
    <3> HIDE DEF d, v, x, u
    <3>1. CASE u = 0
      <4>1. r.open = [[open EXCEPT ![d] = v] EXCEPT ![x] = Shut] /\ r.retired = retired
        BY <3>1 DEF Retire
      <4>2. q.open = [open EXCEPT ![x] = Shut] /\ q.retired = retired
        BY <3>1 DEF Retire
      <4> QED BY <2>1, <2>2, <2>4, <4>1, <4>2
    <3>2. CASE u > 0 /\ room # {}
      <4> DEFINE more == [retired EXCEPT ![Min(room)] = [fd |-> x, uses |-> u]]
      <4>1. r.open = [open EXCEPT ![d] = v] /\ r.retired = more
        BY <3>2 DEF Retire
      <4>2. q.open = open /\ q.retired = more
        BY <3>2 DEF Retire
      <4> HIDE DEF r, q, more
      <4> QED BY <4>1, <4>2
    <3>3. CASE u > 0 /\ room = {}
      <4>1. r.open = [open EXCEPT ![d] = v] /\ r.retired = retired
        BY <3>3 DEF Retire
      <4>2. q.open = open /\ q.retired = retired
        BY <3>3 DEF Retire
      <4> HIDE DEF r, q
      <4> QED BY <4>1, <4>2
    <3> QED BY <2>2, <3>1, <3>2, <3>3
  <2>6. /\ v \in Versions /\ seen[p] \in Versions /\ st <= v /\ v >= seen[p]
        /\ v \in Nat /\ st \in Nat /\ seen[p] \in Nat
    BY <1>1, <1>6, Sizes DEF Newer
  <2>8. ca[i].fd = Tombstone /\ [ca EXCEPT ![i] = e] = new
    BY <2>4 DEF NoEntry
  <2>9. r.open[d] = v
    <3>1. d \in DOMAIN q.open
      BY <2>1, <2>3 DEF Sound
    <3> QED BY <3>1, <2>5
  <2>10. conn' = [conn EXCEPT ![c] = s] /\ cache' = Hold(i, new)
    BY <1>4, <1>6, <2>9 DEF Arm
  <2>11. open' = [q.open EXCEPT ![d] = v] /\ retired' = q.retired /\ step' = Idle
    BY <1>6, <2>5
  <2>12. new \in [Slots -> Entry] /\ new[i] = e /\ \A j \in Slots : j # i => new[j] = cache[j]
    <3>1. e \in Entry
      <4>1. 0 \in 0 .. Cardinality(Conns)
        BY Sizes
      <4> QED BY <2>1, <4>1 DEF Entry
    <3> QED BY <2>4, <3>1
  <2>13. \A y \in Fds : y # x /\ y # d => open'[y] = open[y]
    BY <2>3, <2>11
  <2>14. open'[d] = v
    BY <2>9, <2>5, <2>11
  <2> HIDE DEF d, v, x, u, r, q, ca, new
  <2>15. Sound(open, cache, retired, conn)'
    <3>1. ~(ca[i].fd >= 0) /\ q.open[d] = Shut
      BY <2>1, <2>2, <2>3, <2>8 DEF Tombstone
    <3>2. Sound([q.open EXCEPT ![d] = v], Hold(i, [ca EXCEPT ![i] = e]), q.retired,
                [conn EXCEPT ![c] = s])
      BY <1>4, <2>1, <2>3, <2>6, <3>1, PutAndShare
    <3> QED BY <2>8, <2>10, <2>11, <3>2
  <2>16. /\ cache'[i].fd = d /\ cache'[i].path = p
         /\ \A j \in Slots : j # i => /\ cache'[j].fd = cache[j].fd /\ cache'[j].path = cache[j].path
                                      /\ cache'[j].fresh = cache[j].fresh
    <3>1. \A j \in Slots : /\ Hold(i, new)[j].fd = new[j].fd /\ Hold(i, new)[j].path = new[j].path
                           /\ Hold(i, new)[j].fresh = new[j].fresh
      BY <2>12, HoldKeeps
    <3> QED BY <2>10, <2>12, <3>1
  <2>17. d # Empty
    BY <2>1, SoundTypes
  <2>18. Chained'
    BY <1>4, <2>16, <2>17, ChainKeeps
  <2>19. Newer'
    <3>1. \A j \in Slots : j # i /\ cache[j].fd >= 0 =>
             cache[j].fd # x /\ cache[j].fd # d /\ cache[j].fd \in Fds
      BY <1>4, <2>1, FreeIsUnheld, SoundTypes DEF Sound, Apart, x
    <3>2. \A j \in Slots : cache'[j].fd >= 0 /\ cache'[j].fresh =>
             open'[cache'[j].fd] >= seen[cache'[j].path]
      BY <2>6, <2>13, <2>14, <2>16, <3>1 DEF Newer, Live
    <3> QED BY <1>3, <3>2 DEF Newer, Live
  <2>20. EditShowsUp'
    <3>1. s.version >= s.atLeast
      BY <2>6
    <3> QED BY <2>4, <2>10, <3>1, ArmShows
  <2> QED BY <2>11, <2>15, <2>18, <2>19, <2>20 DEF Serving
<1>7. \/ /\ DropEntry(i)
         /\ step' = [at |-> "open", c |-> c, p |-> p]
         /\ UNCHANGED conn
      \/ /\ v # Gone /\ FreeFds # {}
         /\ open' = r.open
         /\ retired' = r.retired
         /\ cache' = Hold(i, [cache EXCEPT ![i] =
                       [fd |-> d, path |-> cache[i].path, meta |-> st, fresh |-> TRUE, uses |-> 0]])
         /\ Arm(c, d, st, FALSE, r.open, seen[p])
         /\ step' = Idle
  BY <1>2 DEF Reopen
<1> QED BY <1>5, <1>6, <1>7

\* A connection is armed with a descriptor that it alone owns.
LEMMA OwnStep ==
    ASSUME CacheInv, NEW c \in Conns, conn[c].fd = NoFd, NEW d \in Fds, open[d] = Shut,
           NEW v \in Versions, NEW a \in Versions, v >= a, NEW size \in Versions,
           open' = [open EXCEPT ![d] = v],
           conn' = [conn EXCEPT ![c] = [fd |-> d, owned |-> TRUE, size |-> size,
                                        version |-> v, atLeast |-> a]],
           step' = Idle, UNCHANGED <<fs, written, cache, retired, seen>>
    PROVE  CacheInv'
<1> USE DEF CacheInv
<1> DEFINE s == [fd |-> d, owned |-> TRUE, size |-> size, version |-> v, atLeast |-> a]
<1>1. s \in Sent /\ s.fd = d /\ s.owned /\ s.version = v
  BY DEF Sent
<1>2. Sound(open, cache, retired, conn)'
  <2>1. Sound([open EXCEPT ![d] = v], cache, retired, [conn EXCEPT ![c] = s])
    BY <1>1, OwnIsSound
  <2> QED BY <2>1
<1>3. Chained'
  BY ChainKeeps
<1>4. Newer'
  <2>1. \A j \in Slots : cache[j].fd >= 0 => open'[cache[j].fd] = open[cache[j].fd]
    <3>1. \A j \in Slots : cache[j].fd >= 0 => cache[j].fd # d /\ cache[j].fd \in Fds
      BY FreeIsUnheld, SoundTypes
    <3>2. open \in [Fds -> Versions \cup {Shut}]
      BY DEF Sound
    <3> QED BY <3>1, <3>2
  <2> QED BY <2>1 DEF Newer, Live
<1>5. Serving' /\ EditShowsUp'
  <2>1. s.version >= s.atLeast /\ conn \in [Conns -> Sent]
    BY DEF Sound
  <2> QED BY <2>1, ArmShows DEF Serving
<1> QED BY <1>2, <1>3, <1>4, <1>5

\* open and fstat at the end of static_serve, and file_cache_store.
LEMMA OpenStep ==
    ASSUME CacheInv, Open
    PROVE  CacheInv'
<1> USE DEF CacheInv
<1>1. PICK c \in Conns, p \in Paths :
          /\ step = [at |-> "open", c |-> c, p |-> p]
          /\ conn[c].fd = NoFd
          /\ \A i \in Slots : Live(i) => cache[i].path # p
  BY DEF Open, Serving, Idle
<1>2. step.c = c /\ step.p = p
  BY <1>1
<1>3. step' = Idle /\ UNCHANGED <<fs, written, retired, seen>>
  BY DEF Open
<1>4. CASE UNCHANGED <<open, cache, conn>>
  <2>1. Sound(open, cache, retired, conn)' /\ EditShowsUp'
    BY <1>3, <1>4 DEF EditShowsUp, Sending
  <2>2. Chained'
    BY <1>4, ChainKeeps
  <2>3. Newer' /\ Serving'
    BY <1>3, <1>4 DEF Newer, Live, Serving
  <2> QED BY <2>1, <2>2, <2>3
<1> DEFINE d == Min(FreeFds)
           v == fs[p]
           e == [fd |-> d, path |-> p, meta |-> v, fresh |-> TRUE, uses |-> 0]
<1>5. ASSUME v # Gone, FreeFds # {}, open' = [open EXCEPT ![d] = v],
             Arm(c, d, v, StoreAt(p) = {}, open', seen[p]),
             \/ StoreAt(p) = {} /\ UNCHANGED cache
             \/ \E i \in StoreAt(p) : cache' = Hold(i, [cache EXCEPT ![i] = e])
      PROVE  CacheInv'
  <2>1. d \in Fds /\ open[d] = Shut
    BY <1>5, LowestFree
  <2>2. /\ v \in Versions /\ seen[p] \in Versions /\ v >= seen[p]
        /\ v \in Nat /\ seen[p] \in Nat /\ v <= v
    BY <1>5, Sizes DEF Newer
  <2>3. /\ open \in [Fds -> Versions \cup {Shut}] /\ cache \in [Slots -> Entry]
        /\ conn \in [Conns -> Sent]
    BY DEF Sound
  <2>4. open'[d] = v /\ \A y \in Fds : y # d => open'[y] = open[y]
    BY <1>5, <2>1, <2>3
  <2> HIDE DEF d, v
  <2>5. CASE StoreAt(p) = {} /\ UNCHANGED cache
    <3>1. (StoreAt(p) = {}) = TRUE
      BY <2>5
    <3>2. conn' = [conn EXCEPT ![c] = [fd |-> d, owned |-> TRUE, size |-> v,
                                       version |-> v, atLeast |-> seen[p]]]
      BY <1>5, <2>4, <3>1 DEF Arm
    <3> QED BY <1>1, <1>3, <1>5, <2>1, <2>2, <2>5, <3>2, OwnStep
  <2>6. ASSUME NEW i \in StoreAt(p), cache' = Hold(i, [cache EXCEPT ![i] = e])
        PROVE  CacheInv'
    <3> DEFINE new == [cache EXCEPT ![i] = e]
               s == [fd |-> d, owned |-> FALSE, size |-> v, version |-> v, atLeast |-> seen[p]]
    <3>1. i \in Slots /\ cache[i].fd \in {Empty, Tombstone}
      BY StorePlace
    <3>2. (StoreAt(p) = {}) = FALSE
      BY <2>6
    <3>3. conn' = [conn EXCEPT ![c] = s]
      BY <1>5, <2>4, <3>2 DEF Arm
    <3>4. Sound(open, cache, retired, conn)'
      <4>1. ~(cache[i].fd >= 0)
        BY <3>1 DEF Empty, Tombstone
      <4>2. Sound([open EXCEPT ![d] = v], Hold(i, [cache EXCEPT ![i] = e]), retired,
                  [conn EXCEPT ![c] = s])
        BY <1>1, <2>1, <2>2, <3>1, <4>1, PutAndShare
      <4> QED BY <1>3, <1>5, <2>6, <3>3, <4>2
    <3>5. new \in [Slots -> Entry] /\ new[i] = e /\ \A j \in Slots : j # i => new[j] = cache[j]
      <4>1. e \in Entry
        <5>1. 0 \in 0 .. Cardinality(Conns)
          BY Sizes
        <5> QED BY <2>1, <2>2, <5>1 DEF Entry
      <4> QED BY <2>3, <3>1, <4>1
    <3> HIDE DEF new
    <3>6. /\ cache'[i].fd = d /\ cache'[i].path = p
          /\ \A j \in Slots : j # i => /\ cache'[j].fd = cache[j].fd /\ cache'[j].path = cache[j].path
                                       /\ cache'[j].fresh = cache[j].fresh
      <4>1. \A j \in Slots : /\ Hold(i, new)[j].fd = new[j].fd /\ Hold(i, new)[j].path = new[j].path
                             /\ Hold(i, new)[j].fresh = new[j].fresh
        BY <3>1, <3>5, HoldKeeps
      <4>2. cache' = Hold(i, new)
        BY <2>6 DEF new
      <4> QED BY <3>1, <3>5, <4>1, <4>2
    <3>7. d # Empty /\ d >= 0
      BY <2>1, SoundTypes, Sizes
    <3>8. Chained'
      BY <1>1, <2>6, <3>6, <3>7, ChainStore
    <3>9. Newer'
      <4>1. \A j \in Slots : j # i /\ cache[j].fd >= 0 => cache[j].fd # d /\ cache[j].fd \in Fds
        BY <2>1, FreeIsUnheld, SoundTypes
      <4>2. \A j \in Slots : cache'[j].fd >= 0 /\ cache'[j].fresh =>
               open'[cache'[j].fd] >= seen[cache'[j].path]
        BY <2>2, <2>4, <3>6, <4>1 DEF Newer, Live
      <4> QED BY <1>3, <4>2 DEF Newer, Live
    <3>10. EditShowsUp'
      <4>1. s.version >= s.atLeast
        BY <2>2
      <4> QED BY <2>3, <3>3, <4>1, ArmShows
    <3> QED BY <1>3, <3>4, <3>8, <3>9, <3>10 DEF Serving
  <2> QED BY <1>5, <2>5, <2>6
<1>6. \/ UNCHANGED <<open, cache, conn>>
      \/ /\ v # Gone /\ FreeFds # {} /\ open' = [open EXCEPT ![d] = v]
         /\ Arm(c, d, v, StoreAt(p) = {}, open', seen[p])
         /\ \/ StoreAt(p) = {} /\ UNCHANGED cache
            \/ \E i \in StoreAt(p) : cache' = Hold(i, [cache EXCEPT ![i] = e])
  BY <1>2 DEF Open, IsReg
<1> QED BY <1>4, <1>5, <1>6

\* A file of another mount, or a route's own.
LEMMA ServeUncachedStep ==
    ASSUME CacheInv, NEW c \in Conns, NEW p \in Paths, ServeUncached(c, p)
    PROVE  CacheInv'
<1> USE DEF CacheInv
<1> DEFINE d == Min(FreeFds)
           v == fs[p]
<1>1. d \in Fds /\ open[d] = Shut
  BY LowestFree DEF ServeUncached
<1>2. v \in Versions /\ v >= v
  BY Sizes DEF Newer
<1>3. /\ open' = [open EXCEPT ![d] = v] /\ conn[c].fd = NoFd
      /\ UNCHANGED <<fs, written, cache, retired, seen>> /\ step' = Idle
  BY DEF ServeUncached
<1>4. open'[d] = v
  <2>1. open \in [Fds -> Versions \cup {Shut}]
    BY DEF Sound
  <2> QED BY <1>1, <1>3, <2>1
<1>5. conn' = [conn EXCEPT ![c] = [fd |-> d, owned |-> TRUE, size |-> v,
                                   version |-> v, atLeast |-> v]]
  BY <1>4 DEF ServeUncached, Arm
<1> HIDE DEF d, v
<1> QED BY <1>1, <1>2, <1>3, <1>5, OwnStep

\* A response ends.
LEMMA FinishStep ==
    ASSUME CacheInv, NEW c \in Conns, Finish(c)
    PROVE  CacheInv'
<1> USE DEF CacheInv
<1>1. /\ conn[c].fd # NoFd /\ conn' = [conn EXCEPT ![c] = NoFile] /\ step' = Idle
      /\ UNCHANGED <<fs, written, seen>>
  BY DEF Finish
<1>2. EditShowsUp' /\ Serving'
  <2>1. conn \in [Conns -> Sent] /\ NoFile.fd = NoFd
    BY DEF Sound, NoFile
  <2>2. \A b \in Conns : conn'[b].fd # NoFd => conn'[b] = conn[b]
    BY <1>1, <2>1
  <2> QED BY <1>1, <2>2 DEF EditShowsUp, Sending, Serving
<1>3. ASSUME Sound(open', cache', retired', [conn EXCEPT ![c] = NoFile]),
             \A j \in Slots : /\ cache'[j].fd = cache[j].fd /\ cache'[j].path = cache[j].path
                              /\ cache'[j].fresh = cache[j].fresh,
             \A j \in Slots : cache[j].fd >= 0 => open'[cache[j].fd] = open[cache[j].fd]
      PROVE  CacheInv'
  <2>1. Sound(open, cache, retired, conn)'
    BY <1>1, <1>3
  <2>2. Chained'
    BY <1>3, ChainKeeps
  <2>3. Newer'
    BY <1>1, <1>3 DEF Newer, Live
  <2> QED BY <1>2, <2>1, <2>2, <2>3
<1>4. CASE /\ conn[c].owned
           /\ open' = [open EXCEPT ![conn[c].fd] = Shut]
           /\ UNCHANGED <<cache, retired>>
  <2>1. Sound(open', cache', retired', [conn EXCEPT ![c] = NoFile])
    BY <1>1, <1>4, CloseIsSound
  <2>2. \A j \in Slots : cache[j].fd >= 0 => open'[cache[j].fd] = open[cache[j].fd]
    <3>1. \A j \in Slots : cache[j].fd >= 0 => cache[j].fd # conn[c].fd /\ cache[j].fd \in Fds
      BY <1>1, <1>4, SoundTypes DEF Sound, Apart
    <3>2. open \in [Fds -> Versions \cup {Shut}]
      BY DEF Sound
    <3> QED BY <1>4, <3>1, <3>2
  <2> QED BY <1>3, <1>4, <2>1, <2>2
<1>5. CASE /\ ~conn[c].owned
           /\ cache' = Release(conn[c].fd).cache
           /\ retired' = Release(conn[c].fd).retired
           /\ open' = Release(conn[c].fd).open
  <2> DEFINE r == Release(conn[c].fd)
  <2>1. /\ Sound(r.open, r.cache, r.retired, [conn EXCEPT ![c] = NoFile])
        /\ \A j \in Slots : /\ r.cache[j].fd = cache[j].fd /\ r.cache[j].path = cache[j].path
                            /\ r.cache[j].fresh = cache[j].fresh
        /\ \A j \in Slots : cache[j].fd >= 0 => r.open[cache[j].fd] = open[cache[j].fd]
    BY <1>1, <1>5, ReleaseIsSound
  <2> HIDE DEF r
  <2>2. cache' = r.cache /\ retired' = r.retired /\ open' = r.open
    BY <1>5 DEF r
  <2> QED BY <1>3, <2>1, <2>2
<1> QED BY <1>4, <1>5 DEF Finish

\* The worker ends.
LEMMA ExitStep ==
    ASSUME CacheInv, Exit
    PROVE  CacheInv'
<1> USE DEF CacheInv
<1>1. /\ cache' = [i \in Slots |-> NoEntry] /\ retired' = [r \in Retired |-> NoRetired]
      /\ step' = [at |-> "exited"] /\ UNCHANGED <<fs, written, conn, seen>>
      /\ \A c \in Conns : conn[c].fd = NoFd
  BY DEF Exit
<1>2. 0 \in 0 .. Cardinality(Conns) /\ Gone \in Versions
  BY Sizes
<1>3. NoEntry \in Entry /\ NoEntry.fd = Empty
  BY <1>2 DEF NoEntry, Entry
<1>4. NoRetired \in Kept /\ NoRetired.fd = NoFd
  BY <1>2 DEF NoRetired, Kept
<1>5. open' \in [Fds -> Versions \cup {Shut}] /\ conn' \in [Conns -> Sent]
  BY <1>1 DEF Exit, Sound
<1>6. /\ \A i \in Slots : ~(cache'[i].fd >= 0)
      /\ \A r \in Retired : retired'[r].fd = NoFd
      /\ \A c \in Conns : conn'[c].fd = NoFd
  BY <1>1, <1>3, <1>4 DEF Empty
<1>7. cache' \in [Slots -> Entry] /\ retired' \in [Retired -> Kept]
  BY <1>1, <1>3, <1>4
<1>8. Sound(open, cache, retired, conn)'
  BY <1>5, <1>6, <1>7 DEF Sound, Apart, Backed, Counted
<1>9. Chained' /\ EditShowsUp' /\ Serving'
  BY <1>1, <1>6 DEF Chained, Live, EditShowsUp, Sending, Serving
<1>10. Newer'
  BY <1>1, <1>6 DEF Newer, Live
<1> QED BY <1>8, <1>9, <1>10

-----------------------------------------------------------------------------
(* Who closes a descriptor. *)

\* A connection that sent nothing owned nothing.
LEMMA OwnersStay ==
    ASSUME conn \in [Conns -> Sent], NEW c \in Conns, conn[c].fd = NoFd \/ ~conn[c].owned, NEW s,
           conn' = [conn EXCEPT ![c] = s]
    PROVE  \A d \in Fds, e \in Conns :
              conn[e].fd = d /\ conn[e].owned => conn'[e].fd = d /\ conn'[e].owned
<1>1. NoFd \notin Fds
  BY Sizes DEF NoFd
<1>2. ASSUME NEW d \in Fds, NEW e \in Conns, conn[e].fd = d, conn[e].owned PROVE conn'[e] = conn[e]
  BY <1>1, <1>2
<1> QED BY <1>2

\* retire_fd closes what is not in use.
LEMMA RetireUnused ==
    ASSUME NEW tab, NEW x
    PROVE  Retire(tab, x, 0).open = [tab EXCEPT ![x] = Shut] /\ Retire(tab, x, 0).retired = retired
BY DEF Retire

\* What retire_fd does not close it keeps, if it has room.
LEMMA RetireKeeps ==
    ASSUME NEW tab \in [Fds -> Versions \cup {Shut}], retired \in [Retired -> Kept],
           NEW x \in Fds, NEW u \in Nat, u > 0 => \E r \in Retired : retired[r].fd = NoFd
    PROVE  LET r == Retire(tab, x, u)
           IN  /\ \A y \in Fds : r.open[y] # Shut => tab[y] # Shut
               /\ \A y \in Fds, q \in Retired : retired[q].fd = y => r.retired[q].fd = y
               /\ r.open[x] # Shut => \E q \in Retired : r.retired[q].fd = x
<1> DEFINE r == Retire(tab, x, u)
           room == {q \in Retired : retired[q].fd = NoFd}
<1>1. CASE u = 0
  <2>1. r.open = [tab EXCEPT ![x] = Shut] /\ r.retired = retired
    BY <1>1, RetireUnused
  <2> QED BY <2>1
<1>2. CASE u > 0
  <2>1. room # {}
    BY <1>2
  <2>2. Min(room) \in Retired /\ retired[Min(room)].fd = NoFd
    <3>1. room \in SUBSET Nat
      BY Sizes
    <3> QED BY <2>1, <3>1, MinNat
  <2> DEFINE q0 == Min(room)
             more == [retired EXCEPT ![q0] = [fd |-> x, uses |-> u]]
  <2>3. r.open = tab /\ r.retired = more
    BY <1>2, <2>1 DEF Retire
  <2>4. NoFd \notin Fds
    BY Sizes DEF NoFd
  <2> HIDE DEF q0
  <2>5. more[q0].fd = x /\ \A q \in Retired : q # q0 => more[q] = retired[q]
    BY <2>2 DEF q0
  <2>6. \A y \in Fds, q \in Retired : retired[q].fd = y => q # q0
    BY <2>2, <2>4 DEF q0
  <2> HIDE DEF more
  <2> QED BY <2>2, <2>3, <2>5, <2>6 DEF q0
<1> QED BY <1>1, <1>2

\* An entry that is looked at again is given up, or its descriptor replaced by y0.
LEMMA RetireHolds ==
    ASSUME CacheInv, OwnerInv, Room, NEW i \in Slots, Live(i), step.i = i, step.at \in {"stat", "reopen"},
           NEW tab \in [Fds -> Versions \cup {Shut}], NEW y0,
           \A y \in Fds : tab[y] # Shut => open[y] # Shut \/ y = y0,
           open' = Retire(tab, cache[i].fd, cache[i].uses).open,
           retired' = Retire(tab, cache[i].fd, cache[i].uses).retired,
           \A j \in Slots : j # i => cache'[j].fd = cache[j].fd,
           y0 \in Fds => cache'[i].fd = y0,
           \A d \in Fds, e \in Conns :
              conn[e].fd = d /\ conn[e].owned => conn'[e].fd = d /\ conn'[e].owned
    PROVE  \A d \in Fds : open'[d] # Shut => Held(cache', retired', conn', d)
<1> DEFINE x == cache[i].fd
           u == cache[i].uses
           r == Retire(tab, x, u)
<1>1. x \in Fds /\ u \in Nat /\ retired \in [Retired -> Kept]
  BY SoundTypes DEF CacheInv, Sound, Live
<1>2. u > 0 => \E q \in Retired : retired[q].fd = NoFd
  BY DEF Room
<1>3. /\ \A y \in Fds : r.open[y] # Shut => tab[y] # Shut
      /\ \A y \in Fds, q \in Retired : retired[q].fd = y => r.retired[q].fd = y
      /\ r.open[x] # Shut => \E q \in Retired : r.retired[q].fd = x
  BY <1>1, <1>2, RetireKeeps
<1>4. open' = r.open /\ retired' = r.retired
  OBVIOUS
<1> HIDE DEF r, u
<1> SUFFICES ASSUME NEW d \in Fds, open'[d] # Shut PROVE Held(cache', retired', conn', d)
  OBVIOUS
<1>5. CASE d = y0
  BY <1>5 DEF Held
<1>6. CASE d = x
  BY <1>3, <1>4, <1>6 DEF Held
<1>7. CASE d # y0 /\ d # x
  <2>1. open[d] # Shut
    BY <1>3, <1>4, <1>7
  <2>2. Held(cache, retired, conn, d)
    BY <2>1 DEF OwnerInv
  <2>3. CASE \E j \in Slots : cache[j].fd = d
    BY <1>7, <2>3 DEF Held
  <2>4. CASE \E q \in Retired : retired[q].fd = d
    BY <1>3, <1>4, <2>4 DEF Held
  <2>5. CASE \E e \in Conns : conn[e].fd = d /\ conn[e].owned
    BY <2>5 DEF Held
  <2> QED BY <2>2, <2>3, <2>4, <2>5 DEF Held
<1> QED BY <1>5, <1>6, <1>7

\* A descriptor y0 is opened, and held; the others are held as before.
LEMMA OpensHeld ==
    ASSUME CacheInv, OwnerInv, NEW y0,
           \A y \in Fds : open'[y] # Shut => open[y] # Shut \/ y = y0,
           retired' = retired,
           \A j \in Slots : cache[j].fd >= 0 => cache'[j].fd = cache[j].fd,
           \A d \in Fds, e \in Conns :
              conn[e].fd = d /\ conn[e].owned => conn'[e].fd = d /\ conn'[e].owned,
           y0 \in Fds => Held(cache', retired', conn', y0)
    PROVE  \A d \in Fds : open'[d] # Shut => Held(cache', retired', conn', d)
<1> SUFFICES ASSUME NEW d \in Fds, open'[d] # Shut, d # y0 PROVE Held(cache', retired', conn', d)
  OBVIOUS
<1>1. Held(cache, retired, conn, d)
  BY DEF OwnerInv
<1>2. d >= 0
  BY Sizes
<1> QED BY <1>1, <1>2 DEF Held

\* An entry held by one more connection keeps its descriptor.
LEMMA HoldFd ==
    ASSUME NEW ca \in [Slots -> Entry], NEW i \in Slots, cache' = Hold(i, ca)
    PROVE  \A j \in Slots : cache'[j].fd = ca[j].fd
BY HoldKeeps

\* Giving an entry up forgets no descriptor.
LEMMA DropHolds ==
    ASSUME CacheInv, OwnerInv, Room, NEW i \in Slots, Live(i), step.i = i, step.at \in {"stat", "reopen"},
           DropEntry(i), conn' = conn
    PROVE  \A d \in Fds : open'[d] # Shut => Held(cache', retired', conn', d)
<1>1. open \in [Fds -> Versions \cup {Shut}] /\ cache \in [Slots -> Entry]
  BY DEF CacheInv, Sound
<1>2. NoFd \notin Fds
  BY Sizes DEF NoFd
<1>3. /\ open' = Retire(open, cache[i].fd, cache[i].uses).open
      /\ retired' = Retire(open, cache[i].fd, cache[i].uses).retired
      /\ \A j \in Slots : j # i => cache'[j].fd = cache[j].fd
  BY <1>1 DEF DropEntry
<1> QED BY <1>1, <1>2, <1>3, RetireHolds

\* file_cache_recheck up to the reopen forgets none, with room.
LEMMA StatOwners ==
    ASSUME CacheInv, OwnerInv, Room, Stat
    PROVE  OwnerInv'
<1>1. PICK c \in Conns, p \in Paths, i \in Slots :
          step = [at |-> "stat", c |-> c, p |-> p, i |-> i] /\ Looking(c, p, i)
  BY DEF CacheInv, Stat, Serving, Idle
<1>2. /\ step.c = c /\ step.p = p /\ step.i = i /\ step.at = "stat"
      /\ conn[c].fd = NoFd /\ Live(i)
  BY <1>1 DEF Looking
<1>3. step'.at # "exited"
  <2>1. \/ step' = [at |-> "open", c |-> step.c, p |-> step.p]
        \/ step' = Idle
        \/ step' = [at |-> "reopen", c |-> step.c, p |-> step.p, i |-> step.i, st |-> fs[step.p]]
    BY Zenon DEF Stat
  <2> QED BY <2>1 DEF Idle
<1>4. conn \in [Conns -> Sent] /\ cache \in [Slots -> Entry]
  BY DEF CacheInv, Sound
<1>5. CASE DropEntry(i) /\ UNCHANGED conn
  BY <1>2, <1>3, <1>5, DropHolds DEF OwnerInv, ClosedAtExit
<1>6. CASE /\ cache' = Hold(i, [cache EXCEPT ![i].fresh = TRUE])
           /\ Arm(c, cache[i].fd, cache[i].meta, FALSE, open, seen[p])
           /\ UNCHANGED <<open, retired>>
  <2> DEFINE ca == [cache EXCEPT ![i].fresh = TRUE]
  <2>1. ca \in [Slots -> Entry] /\ \A j \in Slots : ca[j].fd = cache[j].fd
    BY <1>4 DEF Entry
  <2> HIDE DEF ca
  <2>2. \A j \in Slots : cache'[j].fd = cache[j].fd
    BY <1>6, <2>1, HoldFd DEF ca
  <2>3. \A d \in Fds, e \in Conns :
              conn[e].fd = d /\ conn[e].owned => conn'[e].fd = d /\ conn'[e].owned
    BY <1>2, <1>4, <1>6, OwnersStay DEF Arm
  <2>4. NoFd \notin Fds
    BY Sizes DEF NoFd
  <2>5. \A d \in Fds : open'[d] # Shut => Held(cache', retired', conn', d)
    BY <1>6, <2>2, <2>3, <2>4, OpensHeld
  <2> QED BY <1>3, <2>5 DEF OwnerInv, ClosedAtExit
<1>7. CASE UNCHANGED <<open, cache, retired, conn>>
  BY <1>3, <1>7 DEF OwnerInv, ClosedAtExit, Held
<1> QED BY <1>2, <1>5, <1>6, <1>7 DEF Stat, IsReg

\* The rest of file_cache_recheck forgets none, with room.
LEMMA ReopenOwners ==
    ASSUME CacheInv, OwnerInv, Room, Reopen
    PROVE  OwnerInv'
<1>1. PICK c \in Conns, p \in Paths, i \in Slots, st \in Versions :
          step = [at |-> "reopen", c |-> c, p |-> p, i |-> i, st |-> st] /\ Looking(c, p, i)
  BY DEF CacheInv, Reopen, Serving, Idle
<1>2. /\ step.c = c /\ step.p = p /\ step.i = i /\ step.at = "reopen" /\ step.st = st
      /\ conn[c].fd = NoFd /\ Live(i)
  BY <1>1 DEF Looking
<1>3. step'.at # "exited"
  <2>1. step' = [at |-> "open", c |-> step.c, p |-> step.p] \/ step' = Idle
    BY Zenon DEF Reopen
  <2> QED BY <2>1 DEF Idle
<1>4. /\ conn \in [Conns -> Sent] /\ cache \in [Slots -> Entry] /\ open \in [Fds -> Versions \cup {Shut}]
      /\ fs[p] \in Versions
  BY DEF CacheInv, Sound, Newer
<1>5. CASE DropEntry(i) /\ UNCHANGED conn
  BY <1>2, <1>3, <1>5, DropHolds DEF OwnerInv, ClosedAtExit
<1> DEFINE d == Min(FreeFds)
           tab == [open EXCEPT ![d] = fs[p]]
           r == Retire(tab, cache[i].fd, cache[i].uses)
           e == [fd |-> d, path |-> cache[i].path, meta |-> st, fresh |-> TRUE, uses |-> 0]
           ca == [cache EXCEPT ![i] = e]
<1>6. CASE /\ FreeFds # {}
           /\ open' = r.open /\ retired' = r.retired /\ cache' = Hold(i, ca)
           /\ Arm(c, d, st, FALSE, r.open, seen[p])
  <2>1. d \in Fds /\ open[d] = Shut
    BY <1>6, LowestFree
  <2> HIDE DEF d
  <2>2. tab \in [Fds -> Versions \cup {Shut}] /\ \A y \in Fds : tab[y] # Shut => open[y] # Shut \/ y = d
    BY <1>4, <2>1
  <2>3. ca \in [Slots -> Entry] /\ ca[i].fd = d /\ \A j \in Slots : j # i => ca[j].fd = cache[j].fd
    <3>1. 0 \in 0 .. Cardinality(Conns) /\ cache[i].path \in Paths \cup {"none"}
      BY <1>4, Sizes DEF Entry
    <3>2. e \in Entry /\ e.fd = d
      BY <2>1, <3>1 DEF Entry
    <3> HIDE DEF e
    <3> QED BY <1>4, <3>2
  <2> HIDE DEF ca, tab
  <2>4. cache'[i].fd = d /\ \A j \in Slots : j # i => cache'[j].fd = cache[j].fd
    BY <1>6, <2>3, HoldFd
  <2>5. \A y \in Fds, b \in Conns :
              conn[b].fd = y /\ conn[b].owned => conn'[b].fd = y /\ conn'[b].owned
    BY <1>2, <1>4, <1>6, OwnersStay DEF Arm
  <2>6. open' = Retire(tab, cache[i].fd, cache[i].uses).open /\ retired' = Retire(tab, cache[i].fd, cache[i].uses).retired
    BY <1>6
  <2>7. \A y \in Fds : open'[y] # Shut => Held(cache', retired', conn', y)
    BY <1>2, <2>2, <2>4, <2>5, <2>6, RetireHolds
  <2> QED BY <1>3, <2>7 DEF OwnerInv, ClosedAtExit
<1> QED BY <1>2, <1>5, <1>6 DEF Reopen

\* A new descriptor goes to the table, or to the connection.
LEMMA OpenOwners ==
    ASSUME CacheInv, OwnerInv, Open
    PROVE  OwnerInv'
<1>1. PICK c \in Conns, p \in Paths :
          step = [at |-> "open", c |-> c, p |-> p] /\ conn[c].fd = NoFd
  BY DEF CacheInv, Open, Serving, Idle
<1>2. step.c = c /\ step.p = p /\ step'.at # "exited" /\ retired' = retired
  BY <1>1 DEF Open, Idle
<1>3. /\ conn \in [Conns -> Sent] /\ cache \in [Slots -> Entry] /\ open \in [Fds -> Versions \cup {Shut}]
      /\ fs[p] \in Versions
  BY DEF CacheInv, Sound, Newer
<1>4. CASE UNCHANGED <<open, cache, conn>>
  BY <1>2, <1>4 DEF OwnerInv, ClosedAtExit, Held
<1> DEFINE d == Min(FreeFds)
           s(owned) == [fd |-> d, owned |-> owned, size |-> fs[p], version |-> open'[d], atLeast |-> seen[p]]
           e == [fd |-> d, path |-> p, meta |-> fs[p], fresh |-> TRUE, uses |-> 0]
<1>5. CASE /\ FreeFds # {} /\ open' = [open EXCEPT ![d] = fs[p]]
           /\ conn' = [conn EXCEPT ![c] = s(StoreAt(p) = {})]
           /\ \/ StoreAt(p) = {} /\ UNCHANGED cache
              \/ \E i \in StoreAt(p) : cache' = Hold(i, [cache EXCEPT ![i] = e])
  <2>1. d \in Fds /\ open[d] = Shut
    BY <1>5, LowestFree
  <2>2. \A y \in Fds : open'[y] # Shut => open[y] # Shut \/ y = d
    BY <1>3, <1>5, <2>1
  <2>3. \A y \in Fds, b \in Conns :
              conn[b].fd = y /\ conn[b].owned => conn'[b].fd = y /\ conn'[b].owned
    BY <1>1, <1>3, <1>5, OwnersStay
  <2>4. CASE StoreAt(p) = {} /\ UNCHANGED cache
    <3>1. conn'[c].fd = d /\ conn'[c].owned
      BY <1>3, <1>5, <2>4
    <3>2. Held(cache', retired', conn', d)
      BY <3>1 DEF Held
    <3> HIDE DEF d
    <3>3. \A y \in Fds : open'[y] # Shut => Held(cache', retired', conn', y)
      BY <1>2, <2>2, <2>3, <2>4, <3>2, OpensHeld
    <3> QED BY <1>2, <3>3 DEF OwnerInv, ClosedAtExit
  <2>5. ASSUME NEW i \in StoreAt(p), cache' = Hold(i, [cache EXCEPT ![i] = e])
        PROVE  OwnerInv'
    <3> DEFINE ca == [cache EXCEPT ![i] = e]
    <3>1. i \in Slots /\ cache[i].fd \in {Empty, Tombstone}
      BY <2>5, StorePlace
    <3>2. ~(cache[i].fd >= 0)
      BY <3>1 DEF Empty, Tombstone
    <3>3. ca \in [Slots -> Entry] /\ ca[i].fd = d /\ \A j \in Slots : j # i => ca[j].fd = cache[j].fd
      <4>1. 0 \in 0 .. Cardinality(Conns)
        BY Sizes
      <4>2. e \in Entry /\ e.fd = d
        BY <1>3, <2>1, <4>1 DEF Entry
      <4> HIDE DEF e
      <4> QED BY <1>3, <3>1, <4>2
    <3>4. cache' = Hold(i, ca)
      BY <2>5
    <3> HIDE DEF ca, d
    <3>5. \A j \in Slots : cache'[j].fd = ca[j].fd
      BY <3>1, <3>3, <3>4, HoldFd
    <3>6. Held(cache', retired', conn', d)
      BY <3>1, <3>3, <3>5 DEF Held
    <3>7. \A j \in Slots : cache[j].fd >= 0 => cache'[j].fd = cache[j].fd
      BY <3>2, <3>3, <3>5
    <3>8. \A y \in Fds : open'[y] # Shut => Held(cache', retired', conn', y)
      BY <1>2, <2>2, <2>3, <3>6, <3>7, OpensHeld
    <3> QED BY <1>2, <3>8 DEF OwnerInv, ClosedAtExit
  <2> QED BY <1>5, <2>4, <2>5
<1> QED BY <1>2, <1>4, <1>5 DEF Open, Arm

\* A hit takes nothing over; an uncached file is the connection's own.
LEMMA ServeOwners ==
    ASSUME CacheInv, OwnerInv, NEW c \in Conns, NEW p \in Paths, Serve(c, p) \/ ServeUncached(c, p)
    PROVE  OwnerInv'
<1>1. /\ conn \in [Conns -> Sent] /\ cache \in [Slots -> Entry] /\ open \in [Fds -> Versions \cup {Shut}]
      /\ conn[c].fd = NoFd /\ step = Idle
  BY DEF CacheInv, Sound, Serve, ServeUncached
<1>2. NoFd \notin Fds /\ step.at # "exited"
  BY <1>1, Sizes DEF NoFd, Idle
<1>3. CASE ServeUncached(c, p)
  <2> DEFINE d == Min(FreeFds)
             s == [fd |-> d, owned |-> TRUE, size |-> fs[p], version |-> open'[d], atLeast |-> fs[p]]
  <2>1. d \in Fds /\ open[d] = Shut
    BY <1>3, LowestFree DEF ServeUncached
  <2>2. /\ open' = [open EXCEPT ![d] = fs[p]] /\ conn' = [conn EXCEPT ![c] = s]
        /\ UNCHANGED <<cache, retired, step>>
    BY <1>3 DEF ServeUncached, Arm
  <2>3. \A y \in Fds : open'[y] # Shut => open[y] # Shut \/ y = d
    BY <1>1, <2>1, <2>2
  <2>4. \A y \in Fds, b \in Conns :
              conn[b].fd = y /\ conn[b].owned => conn'[b].fd = y /\ conn'[b].owned
    BY <1>1, <2>2, OwnersStay
  <2>5. Held(cache', retired', conn', d)
    BY <1>1, <2>2 DEF Held
  <2> HIDE DEF d, s
  <2>6. \A y \in Fds : open'[y] # Shut => Held(cache', retired', conn', y)
    BY <2>2, <2>3, <2>4, <2>5, OpensHeld
  <2> QED BY <1>2, <2>2, <2>6 DEF OwnerInv, ClosedAtExit
<1>4. CASE Serve(c, p) /\ UNCHANGED <<cache, conn>>
  <2>1. UNCHANGED <<open, retired>> /\ step'.at # "exited"
    <3>1. /\ UNCHANGED <<open, retired>>
          /\ \/ step' = [at |-> "open", c |-> c, p |-> p]
             \/ \E i \in Find(p) : step' = [at |-> "stat", c |-> c, p |-> p, i |-> i]
             \/ step' = step
      BY <1>4, Zenon DEF Serve
    <3> QED BY <1>2, <3>1
  <2> QED BY <1>4, <2>1 DEF OwnerInv, ClosedAtExit, Held
<1>5. ASSUME NEW i \in Find(p), cache' = Hold(i, cache), Serve(c, p),
             Arm(c, cache[i].fd, cache[i].meta, FALSE, open, seen[p]), UNCHANGED step
      PROVE  OwnerInv'
  <2>1. i \in Slots
    BY <1>5, FindFacts DEF CacheInv
  <2>2. \A j \in Slots : cache'[j].fd = cache[j].fd
    BY <1>1, <1>5, <2>1, HoldFd
  <2>3. \A y \in Fds, b \in Conns :
              conn[b].fd = y /\ conn[b].owned => conn'[b].fd = y /\ conn'[b].owned
    BY <1>1, <1>5, OwnersStay DEF Arm
  <2>4. open' = open /\ retired' = retired
    BY <1>5 DEF Serve
  <2>5. \A y \in Fds : open'[y] # Shut => Held(cache', retired', conn', y)
    BY <1>2, <2>2, <2>3, <2>4, OpensHeld
  <2> QED BY <1>2, <1>5, <2>5 DEF OwnerInv, ClosedAtExit
<1> QED BY <1>3, <1>4, <1>5 DEF Serve

\* The end of a response closes only what is nobody else's.
LEMMA FinishOwners ==
    ASSUME CacheInv, OwnerInv, NEW c \in Conns, Finish(c)
    PROVE  OwnerInv'
<1> DEFINE d == conn[c].fd
<1>1. /\ conn \in [Conns -> Sent] /\ cache \in [Slots -> Entry] /\ open \in [Fds -> Versions \cup {Shut}]
      /\ retired \in [Retired -> Kept]
  BY DEF CacheInv, Sound
<1>2. d \in Fds /\ conn' = [conn EXCEPT ![c] = NoFile] /\ step'.at # "exited"
  BY SoundTypes DEF CacheInv, Finish, Idle
<1>3. CASE conn[c].owned /\ open' = [open EXCEPT ![d] = Shut] /\ UNCHANGED <<cache, retired>>
  <2>1. ASSUME NEW y \in Fds, open'[y] # Shut PROVE Held(cache', retired', conn', y)
    <3>1. y # d /\ open[y] # Shut
      BY <1>1, <1>2, <1>3, <2>1
    <3>2. Held(cache, retired, conn, y)
      BY <3>1 DEF OwnerInv
    <3>3. \A b \in Conns : conn[b].fd = y => conn'[b] = conn[b]
      BY <1>1, <1>2, <3>1
    <3> QED BY <1>3, <3>2, <3>3 DEF Held
  <2> QED BY <1>2, <2>1 DEF OwnerInv, ClosedAtExit
<1> DEFINE r == Release(d)
<1>4. CASE ~conn[c].owned /\ cache' = r.cache /\ retired' = r.retired /\ open' = r.open
  <2>1. Sound(open, cache, retired, conn) /\ conn[c].fd # NoFd
    BY DEF CacheInv, Finish
  <2>2. \A j \in Slots : cache'[j].fd = cache[j].fd
    BY <1>4, <2>1, ReleaseIsSound
  <2>3. \A y \in Fds : /\ open'[y] # Shut => open[y] # Shut
                       /\ open'[y] # Shut => \A q \in Retired : retired[q].fd = y => retired'[q].fd = y
    <3> DEFINE old == {q \in Retired : retired[q].fd = d}
               hit == {i \in Slots : cache[i].fd = d}
               q0 == Min(old)
               Less(e) == [e EXCEPT !.uses = IF @ > 0 THEN @ - 1 ELSE 0]
               last == old # {} /\ Less(retired[q0]).uses = 0
    <3>1. CASE hit # {}
      <4>1. r.retired = retired /\ r.open = open
        BY <3>1 DEF Release
      <4> QED BY <1>4, <4>1
    <3>2. CASE hit = {}
      <4>1. /\ r.retired = [q \in Retired |-> IF old = {} \/ q # q0 THEN retired[q]
                                              ELSE IF last THEN NoRetired ELSE Less(retired[q])]
            /\ r.open = IF last THEN [open EXCEPT ![d] = Shut] ELSE open
        BY <3>2 DEF Release
      <4>2. \A q \in Retired : Less(retired[q]).fd = retired[q].fd
        BY <1>1 DEF Kept
      <4>3. old # {} => q0 \in Retired /\ retired[q0].fd = d
        <5>1. old \in SUBSET Nat
          BY Sizes
        <5> QED BY <5>1, MinNat
      <4> HIDE DEF q0, old, last, Less, d
      <4>4. CASE last
        <5>1. old # {}
          BY <4>4 DEF last
        <5>2. open' = [open EXCEPT ![d] = Shut] /\ \A q \in Retired : q # q0 => retired'[q] = retired[q]
          BY <1>4, <4>1, <4>4
        <5>3. \A y \in Fds : open'[y] # Shut => y # d /\ open[y] # Shut
          BY <1>1, <1>2, <5>2
        <5>4. ASSUME NEW y \in Fds, open'[y] # Shut, NEW q \in Retired, retired[q].fd = y
              PROVE  retired'[q].fd = y
          BY <4>3, <5>1, <5>2, <5>3, <5>4
        <5> QED BY <5>3, <5>4
      <4>5. CASE ~last
        <5>1. open' = open /\ \A q \in Retired : retired'[q] = retired[q] \/ retired'[q] = Less(retired[q])
          BY <1>4, <4>1, <4>5
        <5> QED BY <4>2, <5>1
      <4> QED BY <4>4, <4>5
    <3> QED BY <3>1, <3>2
  <2>4. \A y \in Fds, b \in Conns :
              conn[b].fd = y /\ conn[b].owned => conn'[b].fd = y /\ conn'[b].owned
    BY <1>1, <1>2, <1>4, OwnersStay
  <2>5. \A y \in Fds : open'[y] # Shut => Held(cache', retired', conn', y)
    BY <2>2, <2>3, <2>4 DEF OwnerInv, Held
  <2> QED BY <1>2, <2>5 DEF OwnerInv, ClosedAtExit
<1> QED BY <1>3, <1>4 DEF Finish

\* static_cache_clear closes all that is left.
LEMMA ExitOwners ==
    ASSUME CacheInv, OwnerInv, Exit
    PROVE  OwnerInv'
<1>1. NoFd \notin Fds
  BY Sizes DEF NoFd
<1>2. ASSUME NEW d \in Fds PROVE open'[d] = Shut
  <2>1. /\ \A c \in Conns : conn[c].fd # d
        /\ open'[d] = IF (\E i \in Slots : cache[i].fd = d) \/ (\E r \in Retired : retired[r].fd = d)
                      THEN Shut ELSE open[d]
    BY <1>1, <1>2 DEF Exit
  <2>2. open[d] # Shut => (\E i \in Slots : cache[i].fd = d) \/ (\E r \in Retired : retired[r].fd = d)
    BY <1>2, <2>1 DEF OwnerInv, Held
  <2> QED BY <2>1, <2>2
<1> QED BY <1>2 DEF OwnerInv, ClosedAtExit

\* OwnerInv is inductive, given CacheInv and Room.
LEMMA OwnersNext ==
    ASSUME CacheInv, OwnerInv, Room, [Next]_vars
    PROVE  OwnerInv'
<1>1. ASSUME NEW p \in Paths, WriteFile(p) \/ RemoveFile(p) PROVE OwnerInv'
  BY <1>1 DEF WriteFile, RemoveFile, OwnerInv, ClosedAtExit, Held
<1>2. ASSUME NEW i \in Slots, Due(i) PROVE OwnerInv'
  <2>1. cache \in [Slots -> Entry]
    BY DEF CacheInv, Sound
  <2>2. \A j \in Slots : cache'[j].fd = cache[j].fd
    BY <1>2, <2>1 DEF Due, Entry
  <2>3. UNCHANGED <<open, retired, conn, step>>
    BY <1>2 DEF Due
  <2> QED BY <2>2, <2>3 DEF OwnerInv, ClosedAtExit, Held
<1>3. CASE UNCHANGED vars
  BY <1>3 DEF vars, OwnerInv, ClosedAtExit, Held
<1> QED BY <1>1, <1>2, <1>3, ServeOwners, StatOwners, ReopenOwners, OpenOwners, FinishOwners, ExitOwners
        DEF Next

\* Nothing is open at the start.
LEMMA OwnersInit ==
    ASSUME Init
    PROVE  OwnerInv
BY DEF Init, OwnerInv, ClosedAtExit, Idle

\* What is held at least once and at most once is held exactly once.
LEMMA OwnedOnce ==
    ASSUME CacheInv, OwnerInv
    PROVE  OneOwner
<1> SUFFICES ASSUME NEW d \in Fds, open[d] # Shut
             PROVE  Cardinality({i \in Slots : cache[i].fd = d})
                    + Cardinality({r \in Retired : retired[r].fd = d})
                    + Cardinality({c \in Conns : conn[c].fd = d /\ conn[c].owned}) = 1
  BY DEF OneOwner, OwnerInv
<1> DEFINE A == {i \in Slots : cache[i].fd = d}
           B == {r \in Retired : retired[r].fd = d}
           C == {c \in Conns : conn[c].fd = d /\ conn[c].owned}
<1>1. A # {} \/ B # {} \/ C # {}
  BY DEF OwnerInv, Held
<1>2. d >= 0 /\ d # NoFd
  BY Sizes DEF NoFd
<1>3. Apart(cache, retired, conn)
  BY DEF CacheInv, Sound
<1>4. /\ \A i, j \in A : i = j
      /\ \A i, j \in B : i = j
      /\ \A i, j \in C : i = j
  BY <1>2, <1>3 DEF Apart
<1>5. (A = {} \/ B = {}) /\ (A = {} \/ C = {}) /\ (B = {} \/ C = {})
  BY <1>2, <1>3 DEF Apart
<1> HIDE DEF A, B, C
<1>6. ASSUME NEW S, \A i, j \in S : i = j PROVE S = {} \/ Cardinality(S) = 1
  <2>1. ASSUME S # {} PROVE Cardinality(S) = 1
    <3>1. PICK x : S = {x}
      BY <1>6, <2>1
    <3> QED BY <3>1, FS_Singleton
  <2> QED BY <2>1
<1>7. /\ A = {} \/ Cardinality(A) = 1
      /\ B = {} \/ Cardinality(B) = 1
      /\ C = {} \/ Cardinality(C) = 1
  BY <1>4, <1>6
<1>8. Cardinality({}) = 0
  BY FS_EmptySet
<1>9. Cardinality(A) + Cardinality(B) + Cardinality(C) = 1
  BY <1>1, <1>5, <1>7, <1>8
<1> QED BY <1>9 DEF A, B, C

-----------------------------------------------------------------------------
(***************************************************************************)
(* The theorems.                                                           *)
(***************************************************************************)

\* CacheInv is an invariant of the specification.
THEOREM CacheInvariant == Spec => []CacheInv
<1>1. CacheInv /\ [Next]_vars => CacheInv'
  <2> SUFFICES ASSUME CacheInv, [Next]_vars PROVE CacheInv'
    OBVIOUS
  <2>1. ASSUME NEW p \in Paths, WriteFile(p) \/ RemoveFile(p) PROVE CacheInv'
    BY <2>1, WriteFileStep, RemoveFileStep
  <2>2. ASSUME NEW i \in Slots, Due(i) PROVE CacheInv'
    BY <2>2, DueStep
  <2>3. ASSUME NEW c \in Conns, NEW p \in Paths, Serve(c, p) \/ ServeUncached(c, p) PROVE CacheInv'
    BY <2>3, ServeStep, ServeUncachedStep
  <2>4. CASE Stat \/ Reopen \/ Open
    BY <2>4, StatStep, ReopenStep, OpenStep
  <2>5. ASSUME NEW c \in Conns, Finish(c) PROVE CacheInv'
    BY <2>5, FinishStep
  <2>6. CASE Exit
    BY <2>6, ExitStep
  <2>7. CASE UNCHANGED vars
    <3>1. UNCHANGED <<fs, written, open, cache, retired, conn, step, seen>>
      BY <2>7 DEF vars
    <3>2. Chained'
      BY <3>1, ChainKeeps DEF CacheInv
    <3>3. Serving'
      <4>1. written \in Nat
        BY Sizes DEF CacheInv, Newer
      <4> QED BY <3>1, <4>1, ServingKeeps DEF CacheInv
    <3> QED BY <3>1, <3>2, <3>3 DEF CacheInv, Newer, EditShowsUp, Sending, Live
  <2> QED BY <2>1, <2>2, <2>3, <2>4, <2>5, <2>6, <2>7 DEF Next
<1> QED BY InitInv, <1>1, PTL DEF Spec

\* For any table, hash and number of connections: whatever is replaced, removed,
\* rechecked or released meanwhile, the use count of every entry, cached or retired,
\* is the number of responses being sent from its descriptor, and each of those still
\* reads the file it was armed with (retire_fd, static_cache_release).
THEOREM UsesAreExact == Spec => []UsesExact
<1>1. CacheInv => UsesExact
  <2> SUFFICES ASSUME CacheInv PROVE UsesExact
    OBVIOUS
  <2>1. TypeOK
    <3>1. step.at \in {"idle", "stat", "reopen", "open", "exited"}
      BY DEF CacheInv, Serving, Idle
    <3>2. \A r \in Retired : retired[r].fd # NoFd => retired[r].uses > 0
      BY DEF CacheInv, Sound, Counted
    <3> QED BY <3>1, <3>2 DEF CacheInv, Sound, Newer, TypeOK
  <2>2. InFlightOpen
    BY DEF CacheInv, Sound, Backed, InFlightOpen, Sending
  <2>3. \A d : Users(d) = Sharers(conn, d)
    BY DEF Users, Sharers
  <2> QED BY <2>1, <2>2, <2>3 DEF CacheInv, Sound, Counted, UsesExact, Live
<1> QED BY <1>1, CacheInvariant, PTL

\* Every entry is found again from the home slot of its path, whatever was stored,
\* removed and stored again before (file_cache_find, file_cache_store, tombstone).
THEOREM EntriesAreReachable == Spec => []Reachable
<1>1. CacheInv => Reachable
  BY FindFacts DEF CacheInv, Chained, Reachable
<1> QED BY <1>1, CacheInvariant, PTL

\* A response is never older than the file was when a request last had to look at the
\* path, although others write it between fstatat, open and fstat (file_cache_recheck).
THEOREM EditsShowUp == Spec => []EditShowsUp
<1>1. CacheInv => EditShowsUp
  BY DEF CacheInv
<1> QED BY <1>1, CacheInvariant, PTL

\* Every open descriptor has exactly one owner that will close it, and none is open when
\* the worker is gone, as long as a retired slot is free when one is needed (retire_fd):
\* of any number of connections.
THEOREM OwnedWhileRoom == Spec /\ []Room => []OneOwner
<1>1. Init => OwnerInv
  BY OwnersInit
<1>2. CacheInv /\ OwnerInv /\ Room /\ [Next]_vars => OwnerInv'
  BY OwnersNext
<1>3. CacheInv /\ OwnerInv => OneOwner
  BY OwnedOnce
<1> QED BY <1>1, <1>2, <1>3, CacheInvariant, PTL DEF Spec

=============================================================================
