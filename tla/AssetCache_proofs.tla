-------------------------- MODULE AssetCache_proofs --------------------------
(***************************************************************************)
(* Proofs about AssetCache, for every number of assets, chunks, releases,  *)
(* clients and inodes, and for one fetch at a time: two that run at once   *)
(* share the names of their temporary files.                               *)
(*                                                                         *)
(* The argument is one about inodes.  The only ones that are written to    *)
(* are those that a temporary name leads to, and no other name and no      *)
(* client has one of them (TemporaryIsApart); so what lies under a final   *)
(* name or under a client's descriptor stays what it is until a rename     *)
(* puts another inode there, and then that one is complete.                *)
(***************************************************************************)
EXTENDS AssetCache, FiniteSetTheorems, SequenceTheorems, TLAPS

\* No two fetches run at once.
Alone == \A f, g \in Fetcher : f = g

\* The first n chunks of a file.
HeadOf(r, n) == [i \in 1..n |-> r]

\* The phases up to an image, those in which it is open, and those before a
\* manifest.
Downloading == {"get", "copy", "publish", "open"}
Extracting == {"create", "extract", "rename", "sum"}
Complete == {"clean", "manifest"}

\* What path p leads to has content c.
Leads(p, c) == dir[p] # None /\ data[dir[p]] = c

TemporaryIsApart ==
    \A n \in Name : dir[Part(n)] # None =>
        /\ \A p \in Path : dir[p] = dir[Part(n)] => p = Part(n)
        /\ \A c \in Client : get[c].fd # dir[Part(n)]

\* The file that a fetch works on.
WorkIsSound ==
    \A f \in Fetcher : LET me == fetch[f] IN
        /\ me.at # "idle" => me.release \in Release
        /\ me.at = "copy" => me.out = dir[Part(Image)]
        /\ me.at = "extract" => me.out = dir[Part(Order[me.n])]
        /\ me.at = "copy" => Leads(Part(Image), HeadOf(me.release, me.pos - 1))
        /\ me.at = "publish" => Leads(Part(Image), FileOf(me.release))
        /\ me.at = "extract" => Leads(Part(Order[me.n]), HeadOf(me.release, me.pos - 1))
        /\ me.at = "rename" => Leads(Part(Order[me.n]), FileOf(me.release))

\* The image that it extracts.
ImageIsSound ==
    \A f \in Fetcher : LET me == fetch[f] IN
        /\ me.at \in Extracting \cup {"open"} => Leads(Final(Image), FileOf(me.release))
        /\ me.at \in Extracting => me.img = dir[Final(Image)]

\* The assets that it has published.
DoneIsSound ==
    \A f \in Fetcher : LET me == fetch[f] IN
        /\ \A i \in DOMAIN Order :
               (me.at \in Extracting /\ i < me.n) \/ me.at \in Complete =>
                   /\ Leads(Final(Order[i]), FileOf(me.release))
                   /\ me.files[Order[i]] = FileOf(me.release)
        /\ me.at = "sum" => Leads(Final(Order[me.n]), FileOf(me.release))
        /\ me.at \in Downloading => me.n = 1

\* The file that a client is being sent.
GetIsSound ==
    \A c \in Client : get[c].fd # None =>
        \E r \in Release :
            data[get[c].fd] = FileOf(r) /\ get[c].size = Chunks /\ get[c].got = HeadOf(r, 1)

IInv ==
    /\ TypeOK
    /\ TemporaryIsApart
    /\ WorkIsSound
    /\ ImageIsSound
    /\ DoneIsSound
    /\ GetIsSound
    /\ AssetsAreWhole

-----------------------------------------------------------------------------
(* Names, files and inodes                                                  *)

\* The assets are taken in an order without gaps.
LEMMA OrderTyped ==
    /\ Cardinality(Asset) \in Nat \ {0} /\ Len(Order) = Cardinality(Asset)
    /\ DOMAIN Order = 1..Cardinality(Asset)
    /\ \A i \in 1..Cardinality(Asset) : Order[i] \in Asset
    /\ \A a \in Asset : \E i \in 1..Cardinality(Asset) : Order[i] = a
<1>1. Cardinality(Asset) \in Nat /\ Cardinality(Asset) # 0
  BY OrderAssumption, FS_CardinalityType, FS_EmptySet
<1>2. Order \in [1..Cardinality(Asset) -> Asset]
  BY OrderAssumption
<1> QED
  BY <1>1, <1>2, OrderAssumption

\* A temporary name is no final one.
LEMMA Paths ==
    /\ Image \in Name /\ Asset \subseteq Name /\ Image \notin Asset
    /\ \A n \in Name : Part(n) \in Path /\ Final(n) \in Path /\ Part(n)[1] = n
    /\ \A m, n \in Name : Part(n) # Final(m)
    /\ \A m, n \in Name : m # n => Part(n) # Part(m) /\ Final(n) # Final(m)
<1>1. Image \in Name /\ Asset \subseteq Name /\ Image \notin Asset
  BY ValueAssumption DEF Name
<1>2. \A n \in Name : Part(n) \in Path /\ Final(n) \in Path /\ Part(n)[1] = n
  BY DEF Path, Part, Final
<1>3. \A m, n \in Name : <<m, ".part">> # <<n, "">>
  OBVIOUS
<1>4. \A m, n \in Name : m # n => <<m, ".part">> # <<n, ".part">> /\ <<m, "">> # <<n, "">>
  OBVIOUS
<1> QED
  BY <1>1, <1>2, <1>3, <1>4 DEF Part, Final

\* A file grows chunk by chunk, and is whole when it has them all.
LEMMA Files ==
    ASSUME NEW r \in Release
    PROVE  /\ FileOf(r) \in Content /\ HeadOf(r, 0) = <<>> /\ HeadOf(r, Chunks) = FileOf(r)
           /\ Len(FileOf(r)) = Chunks /\ FileOf(r) \in Seq(Release)
           /\ \A k \in 1..Chunks : FileOf(r)[k] = r
           /\ \A k \in 0..Chunks : HeadOf(r, k) \in Content
           /\ \A k \in 1..Chunks : Written(HeadOf(r, k - 1), k, r) = HeadOf(r, k)
           /\ SubSeq(FileOf(r), 1, 1) = HeadOf(r, 1)
           /\ HeadOf(r, 1) \o SubSeq(FileOf(r), 2, Chunks) = FileOf(r)
<1>0. Chunks \in Nat /\ Chunks >= 1
  BY ValueAssumption
<1>1. /\ FileOf(r) \in Seq(Release) /\ Len(FileOf(r)) = Chunks
      /\ \A k \in 1..Chunks : FileOf(r)[k] = r
  BY <1>0 DEF FileOf
<1>2. \A k \in 0..Chunks : HeadOf(r, k) \in [1..k -> Release \cup {Hole}]
  BY DEF HeadOf
<1>3. \A k \in 0..Chunks : HeadOf(r, k) \in Content
  BY <1>2 DEF Content
<1>4. HeadOf(r, Chunks) = FileOf(r)
  BY DEF HeadOf, FileOf
<1>5. HeadOf(r, 0) = <<>>
  BY DEF HeadOf
<1>6. ASSUME NEW k \in 1..Chunks PROVE Written(HeadOf(r, k - 1), k, r) = HeadOf(r, k)
  <2>1. /\ HeadOf(r, k - 1) \in Seq(Release) /\ Len(HeadOf(r, k - 1)) = k - 1
        /\ \A i \in 1..k : i # k => HeadOf(r, k - 1)[i] = r
    BY <1>0 DEF HeadOf
  <2> QED
    BY <1>0, <2>1 DEF Written, HeadOf
<1>7. SubSeq(FileOf(r), 1, 1) = HeadOf(r, 1)
  BY <1>0, <1>1 DEF HeadOf
<1>8. HeadOf(r, 1) \o SubSeq(FileOf(r), 2, Chunks) = FileOf(r)
  <2>1. /\ HeadOf(r, 1) \in Seq(Release) /\ Len(HeadOf(r, 1)) = 1 /\ HeadOf(r, 1)[1] = r
    BY DEF HeadOf
  <2>2. /\ SubSeq(FileOf(r), 2, Chunks) \in Seq(Release)
        /\ Len(SubSeq(FileOf(r), 2, Chunks)) = Chunks - 1
        /\ \A i \in 1..(Chunks - 1) : SubSeq(FileOf(r), 2, Chunks)[i] = r
    BY <1>0, <1>1
  <2> DEFINE first == HeadOf(r, 1)
             others == SubSeq(FileOf(r), 2, Chunks)
  <2>3. /\ first \in Seq(Release) /\ Len(first) = 1 /\ first[1] = r
        /\ others \in Seq(Release) /\ Len(others) = Chunks - 1
        /\ \A i \in 1..(Chunks - 1) : others[i] = r
    BY <2>1, <2>2
  <2> HIDE DEF first, others
  <2> DEFINE all == first \o others
  <2>4. all \in Seq(Release) /\ Len(all) = Chunks /\ \A i \in 1..Chunks : all[i] = r
    <3>1. /\ all \in Seq(Release) /\ Len(all) = Len(first) + Len(others)
          /\ \A i \in 1..(Len(first) + Len(others)) :
                 all[i] = IF i <= Len(first) THEN first[i] ELSE others[i - Len(first)]
      BY <2>3, ConcatProperties
    <3>4. \A i \in 1..Chunks : i # 1 => i - 1 \in 1..(Chunks - 1)
      BY <1>0
    <3> QED
      BY <1>0, <2>3, <3>1, <3>4
  <2> HIDE DEF all
  <2>5. all = FileOf(r)
    BY <1>0, <1>1, <2>4
  <2> QED
    BY <2>5 DEF all, first, others
<1> QED
  BY <1>0, <1>1, <1>3, <1>4, <1>5, <1>6, <1>7, <1>8

-----------------------------------------------------------------------------
(* What a step does to the files                                            *)

\* The files under final names, and those that clients read, stay.
FinalsStay ==
    \A n \in Name : /\ dir'[Final(n)] = dir[Final(n)]
                    /\ dir[Final(n)] # None => data'[dir[Final(n)]] = data[dir[Final(n)]]

ReadsStay ==
    \A c \in Client : /\ get'[c] = get[c]
                      /\ get[c].fd # None => data'[get[c].fd] = data[get[c].fd]

\* What a client and a name lead to.
LEMMA FilesTyped ==
    ASSUME TypeOK
    PROVE  /\ None \notin Inode
           /\ \A p \in Path : dir[p] # None => dir[p] \in Inode
           /\ \A c \in Client : get[c].fd # None => get[c].fd \in Inode
           /\ \A i \in Inode : data[i] \in Content
<1>1. NoGet.fd = None
  BY DEF NoGet
<1> QED
  BY <1>1, ValueAssumption DEF TypeOK

\* os.Create empties the file under a temporary name, or makes one.
LEMMA CreateStep ==
    ASSUME TypeOK, TemporaryIsApart, NEW f \in Fetcher, NEW n \in Name, NEW to,
           Create(f, Part(n), to)
    PROVE  /\ dir' \in [Path -> Inode \cup {None}] /\ data' \in [Inode -> Content]
           /\ dir'[Part(n)] \in Inode
           /\ data'[dir'[Part(n)]] = <<>>
           /\ fetch' = [fetch EXCEPT ![f].at = to, ![f].out = dir'[Part(n)], ![f].pos = 1]
           /\ manifest' = manifest
           /\ FinalsStay /\ ReadsStay /\ TemporaryIsApart'
<1> DEFINE i == Opened(Part(n))
<1>0. Part(n) \in Path /\ Part(n)[1] = n
  BY Paths
<1>1. /\ i \in Inode
      /\ \A p \in Path : p # Part(n) => dir[p] # i
      /\ \A c \in Client : get[c].fd # i
  <2>1. CASE dir[Part(n)] # None
    BY <1>0, <2>1, FilesTyped DEF Opened, TemporaryIsApart
  <2>2. CASE dir[Part(n)] = None
    <3>1. Unused(n) # {}
      BY <1>0, <2>2 DEF Create
    <3>2. i \in Unused(n)
      BY <1>0, <2>2, <3>1 DEF Opened
    <3> QED
      BY <3>2 DEF Unused, InUse, Inode
  <2> QED
    BY <2>1, <2>2
<1>2. /\ dir' = [dir EXCEPT ![Part(n)] = i] /\ data' = [data EXCEPT ![i] = <<>>]
      /\ fetch' = [fetch EXCEPT ![f].at = to, ![f].out = i, ![f].pos = 1]
      /\ manifest' = manifest /\ get' = get
  BY DEF Create
<1> HIDE DEF i
<1>3. /\ dir' \in [Path -> Inode \cup {None}] /\ dir'[Part(n)] = i
      /\ \A p \in Path : p # Part(n) => dir'[p] = dir[p]
  BY <1>0, <1>1, <1>2 DEF TypeOK
<1>4. <<>> \in Content
  BY ValueAssumption DEF Content
<1>5. /\ data' \in [Inode -> Content] /\ data'[i] = <<>>
      /\ \A j \in Inode : j # i => data'[j] = data[j]
  BY <1>1, <1>2, <1>4 DEF TypeOK
<1>6. FinalsStay
  BY <1>1, <1>3, <1>5, Paths, FilesTyped DEF FinalsStay
<1>7. ReadsStay
  BY <1>1, <1>2, <1>5, FilesTyped DEF ReadsStay
<1>8. TemporaryIsApart'
  BY <1>1, <1>2, <1>3, Paths DEF TemporaryIsApart
<1> QED
  BY <1>1, <1>2, <1>3, <1>5, <1>6, <1>7, <1>8

\* A write to the file under a temporary name changes no other.
LEMMA WriteStep ==
    ASSUME TypeOK, TemporaryIsApart, NEW n \in Name, dir[Part(n)] # None, NEW x,
           data' = [data EXCEPT ![dir[Part(n)]] = x], dir' = dir, get' = get
    PROVE  /\ data'[dir'[Part(n)]] = x
           /\ FinalsStay /\ ReadsStay /\ TemporaryIsApart'
<1>0. Part(n) \in Path /\ dir[Part(n)] \in Inode
  BY Paths, FilesTyped
<1>1. /\ data'[dir[Part(n)]] = x
      /\ \A j \in Inode : j # dir[Part(n)] => data'[j] = data[j]
  BY <1>0 DEF TypeOK
<1>2. FinalsStay
  BY <1>0, <1>1, Paths, FilesTyped DEF FinalsStay, TemporaryIsApart
<1>3. ReadsStay
  BY <1>0, <1>1, Paths, FilesTyped DEF ReadsStay, TemporaryIsApart
<1>4. TemporaryIsApart'
  BY DEF TemporaryIsApart
<1> QED
  BY <1>1, <1>2, <1>3, <1>4

\* What is freed is not in use.
LEMMA FreeStep ==
    ASSUME TypeOK, Free
    PROVE  /\ data' \in [Inode -> Content]
           /\ \A p \in Path : dir'[p] \in Inode => data'[dir'[p]] = data[dir'[p]]
           /\ \A c \in Client : get'[c].fd \in Inode => data'[get'[c].fd] = data[get'[c].fd]
<1>1. <<>> \in Content
  BY ValueAssumption DEF Content
<1>2. data' = [i \in Inode |-> IF InUse(i)' THEN data[i] ELSE <<>>]
  BY DEF Free
<1>3. data' \in [Inode -> Content]
  BY <1>1, <1>2 DEF TypeOK
<1>4. \A i \in Inode : (\E p \in Path : dir'[p] = i) => data'[i] = data[i]
  BY <1>2 DEF InUse
<1>5. \A i \in Inode : (\E c \in Client : get'[c].fd = i) => data'[i] = data[i]
  BY <1>2 DEF InUse
<1> QED
  BY <1>3, <1>4, <1>5

-----------------------------------------------------------------------------
(* Types                                                                    *)

FetchState == [at : Phase, force : BOOLEAN, release : Release \cup {None},
               img : Inode \cup {None}, out : Inode \cup {None}, pos : 1..(Chunks + 1),
               n : 1..Cardinality(Asset), files : [Asset -> Content]]
GetState == [asset : Asset, fd : Inode \cup {None}, size : 0..Chunks, got : Content]
                \cup {NoGet}

\* What a fetch process is made of.
LEMMA FetchTyped ==
    /\ TypeOK => fetch \in [Fetcher -> FetchState] /\ get \in [Client -> GetState]
    /\ NoFetch \in FetchState /\ NoFetch.at = "idle"
<1>1. TypeOK => fetch \in [Fetcher -> FetchState] /\ get \in [Client -> GetState]
  BY DEF TypeOK, FetchState, GetState
<1>2. <<>> \in Content
  BY ValueAssumption DEF Content
<1>3. NoFetch \in FetchState /\ NoFetch.at = "idle"
  BY <1>2, OrderTyped, ValueAssumption DEF NoFetch, FetchState, Phase
<1> QED
  BY <1>1, <1>3

\* The steps that leave the process idle.
LEMMA IdleTyped ==
    ASSUME TypeOK, NEW f \in Fetcher,
           DownloadFails(f) \/ ExtractFails(f) \/ WriteManifest(f) \/ ManifestFails(f) \/ Die(f)
    PROVE  TypeOK' /\ fetch'[f].at = "idle" /\ get' = get
<1>1. fetch' = [fetch EXCEPT ![f] = NoFetch] /\ get' = get
  BY DEF DownloadFails, ExtractFails, WriteManifest, ManifestFails, Die
<1>2. fetch' \in [Fetcher -> FetchState] /\ fetch'[f].at = "idle"
  BY <1>1, FetchTyped
<1>3. dir' \in [Path -> Inode \cup {None}]
  BY DEF TypeOK, DownloadFails, ExtractFails, WriteManifest, ManifestFails, Die, Removed
<1>4. data' \in [Inode -> Content]
  <2>1. CASE Free
    BY <2>1, FreeStep
  <2>2. CASE UNCHANGED data
    BY <2>2 DEF TypeOK
  <2> QED
    BY <2>1, <2>2 DEF DownloadFails, ExtractFails, WriteManifest, ManifestFails, Die
<1>5. manifest' \in [Asset -> Content] \cup {None}
  <2>1. fetch[f].files \in [Asset -> Content]
    BY FetchTyped DEF FetchState
  <2> QED
    BY <2>1 DEF TypeOK, DownloadFails, ExtractFails, WriteManifest, ManifestFails, Die
<1> QED
  BY <1>1, <1>2, <1>3, <1>4, <1>5 DEF TypeOK, FetchState

\* The step that makes a temporary file.
LEMMA CreateTyped ==
    ASSUME TypeOK, TemporaryIsApart, NEW f \in Fetcher, NEW n \in Name, NEW to \in Phase,
           Create(f, Part(n), to)
    PROVE  /\ TypeOK' /\ get' = get
           /\ fetch'[f].at = to /\ fetch'[f].out = dir'[Part(n)] /\ fetch'[f].pos = 1
           /\ fetch'[f].release = fetch[f].release /\ fetch'[f].img = fetch[f].img
           /\ fetch'[f].n = fetch[f].n /\ fetch'[f].files = fetch[f].files
<1>1. /\ dir' \in [Path -> Inode \cup {None}] /\ data' \in [Inode -> Content]
      /\ dir'[Part(n)] \in Inode
      /\ fetch' = [fetch EXCEPT ![f].at = to, ![f].out = dir'[Part(n)], ![f].pos = 1]
      /\ manifest' = manifest
  BY CreateStep
<1>2. get' = get
  BY DEF Create
<1>3. 1 \in 1..(Chunks + 1)
  BY ValueAssumption
<1>4. fetch' \in [Fetcher -> FetchState]
  BY <1>1, <1>3, FetchTyped DEF FetchState
<1>5. /\ fetch'[f].at = to /\ fetch'[f].out = dir'[Part(n)] /\ fetch'[f].pos = 1
      /\ fetch'[f].release = fetch[f].release /\ fetch'[f].img = fetch[f].img
      /\ fetch'[f].n = fetch[f].n /\ fetch'[f].files = fetch[f].files
  BY <1>1, FetchTyped DEF FetchState
<1> QED
  BY <1>1, <1>2, <1>4, <1>5 DEF TypeOK, FetchState

-----------------------------------------------------------------------------
(* The fetch                                                                *)

\* As long as nothing is published, what is published stays sound.
LEMMA PublishedStays ==
    ASSUME IInv, TypeOK', Alone, NEW f \in Fetcher, FinalsStay, ReadsStay,
           fetch'[f].release = fetch[f].release, fetch'[f].img = fetch[f].img,
           fetch'[f].n = fetch[f].n, fetch'[f].files = fetch[f].files,
           fetch'[f].at \notin {"open", "sum"} \cup Complete,
           fetch'[f].at \in Extracting => fetch[f].at \in Extracting,
           fetch'[f].at \in Downloading => fetch[f].at \in Downloading
    PROVE  ImageIsSound' /\ DoneIsSound' /\ GetIsSound' /\ AssetsAreWhole'
<1>0. /\ TypeOK /\ ImageIsSound /\ DoneIsSound /\ GetIsSound /\ AssetsAreWhole
      /\ \A g \in Fetcher : g = f
  BY DEF IInv, Alone
<1>1. ImageIsSound'
  BY <1>0, Paths DEF ImageIsSound, FinalsStay, Leads, Extracting
<1>2. DoneIsSound'
  <2>1. \A i \in DOMAIN Order : Order[i] \in Name
    BY OrderTyped, Paths
  <2> QED
    BY <1>0, <2>1 DEF DoneIsSound, FinalsStay, Leads, Extracting
<1>3. GetIsSound'
  BY <1>0 DEF GetIsSound, ReadsStay
<1>4. AssetsAreWhole'
  BY <1>0, Paths DEF AssetsAreWhole, ContentAt, FinalsStay, ReadsStay
<1> QED
  BY <1>1, <1>2, <1>3, <1>4

\* Names that are removed, other than those of assets, and inodes that are
\* freed, leave the rest as it is.
LEMMA RemovalIsSound ==
    ASSUME IInv, TypeOK', get' = get, Free \/ data' = data,
           \A p \in Path : dir'[p] \in {dir[p], None},
           \A a \in Asset : dir'[Final(a)] = dir[Final(a)]
    PROVE  /\ TemporaryIsApart' /\ GetIsSound' /\ AssetsAreWhole'
           /\ \A p \in Path : dir'[p] # None => data'[dir'[p]] = data[dir[p]]
<1>0. TypeOK /\ TemporaryIsApart /\ GetIsSound /\ AssetsAreWhole
  BY DEF IInv
<1>1. \A p \in Path : dir'[p] # None => dir'[p] = dir[p] /\ dir'[p] \in Inode
  BY <1>0, FilesTyped
<1>2. /\ \A p \in Path : dir'[p] # None => data'[dir'[p]] = data[dir[p]]
      /\ \A c \in Client : get[c].fd # None => data'[get[c].fd] = data[get[c].fd]
  BY <1>0, <1>1, FreeStep, FilesTyped
<1>3. TemporaryIsApart'
  BY <1>0, <1>1, Paths DEF TemporaryIsApart
<1>4. GetIsSound'
  BY <1>0, <1>2 DEF GetIsSound
<1>5. AssetsAreWhole'
  BY <1>0, <1>2, Paths DEF AssetsAreWhole, ContentAt
<1> QED
  BY <1>2, <1>3, <1>4, <1>5

\* A fetch that fails, dies or succeeds leaves nothing behind that is not
\* sound.
LEMMA IdleIsSound ==
    ASSUME IInv, Alone, NEW f \in Fetcher,
           DownloadFails(f) \/ ExtractFails(f) \/ WriteManifest(f) \/ ManifestFails(f) \/ Die(f)
    PROVE  IInv'
<1>0. TypeOK /\ \A g \in Fetcher : g = f
  BY DEF IInv, Alone
<1>1. TypeOK' /\ fetch'[f].at = "idle" /\ get' = get
  BY <1>0, IdleTyped
<1>2. WorkIsSound' /\ ImageIsSound' /\ DoneIsSound'
  BY <1>0, <1>1 DEF WorkIsSound, ImageIsSound, DoneIsSound, Extracting, Complete,
                           Downloading
<1>3. \A p \in Path : dir'[p] \in {dir[p], None}
  BY <1>0 DEF TypeOK, DownloadFails, ExtractFails, WriteManifest, ManifestFails, Die, Removed
<1>4. \A a \in Asset : dir'[Final(a)] = dir[Final(a)]
  <2>0. \A a \in Asset : /\ a \in Name /\ Final(a) \in Path
                         /\ Final(a) # Final(Image) /\ Final(a) # Part(Image)
    BY Paths
  <2>1. CASE DownloadFails(f)
    BY <1>0, <2>0, <2>1 DEF TypeOK, DownloadFails, Removed
  <2>2. CASE ExtractFails(f)
    <3>1. Order[fetch[f].n] \in Name
      BY <1>0, FetchTyped, OrderTyped, Paths DEF FetchState
    <3>2. \A a \in Asset : Final(a) # Part(Order[fetch[f].n])
      BY <2>0, <3>1, Paths
    <3> QED
      BY <1>0, <2>0, <2>2, <3>2 DEF TypeOK, ExtractFails, Removed
  <2> QED
    BY <2>1, <2>2 DEF WriteManifest, ManifestFails, Die
<1>5. Free \/ data' = data
  BY DEF DownloadFails, ExtractFails, WriteManifest, ManifestFails, Die
<1>6. TemporaryIsApart' /\ GetIsSound' /\ AssetsAreWhole'
  BY <1>1, <1>3, <1>4, <1>5, RemovalIsSound
<1> QED
  BY <1>1, <1>2, <1>6 DEF IInv

\* A fetch starts with nothing in hand.
LEMMA StartIsSound ==
    ASSUME IInv, Alone, NEW f \in Fetcher, NEW force \in BOOLEAN, NEW r \in Release,
           Start(f, force, r)
    PROVE  IInv'
<1>0. TypeOK /\ \A g \in Fetcher : g = f
  BY DEF IInv, Alone
<1>1. /\ fetch' = [fetch EXCEPT ![f] = [NoFetch EXCEPT !.at = "get", !.force = force,
                                                       !.release = r]]
      /\ dir' = dir /\ data' = data /\ manifest' = manifest /\ get' = get
  BY DEF Start
<1>2. /\ fetch' \in [Fetcher -> FetchState] /\ fetch'[f].at = "get"
      /\ fetch'[f].release = r
      /\ fetch'[f].n = 1
  <2>1. /\ [NoFetch EXCEPT !.at = "get", !.force = force, !.release = r] \in FetchState
        /\ [NoFetch EXCEPT !.at = "get", !.force = force, !.release = r].at = "get"
        /\ [NoFetch EXCEPT !.at = "get", !.force = force, !.release = r].release = r
        /\ [NoFetch EXCEPT !.at = "get", !.force = force, !.release = r].n = 1
    BY FetchTyped DEF FetchState, Phase, NoFetch
  <2> QED
    BY <1>0, <1>1, <2>1, FetchTyped
<1>3. TypeOK'
  BY <1>0, <1>1, <1>2 DEF TypeOK, FetchState
<1>4. WorkIsSound' /\ ImageIsSound' /\ DoneIsSound'
  BY <1>0, <1>2 DEF WorkIsSound, ImageIsSound, DoneIsSound, Extracting, Complete,
                           Downloading
<1>5. \A a \in Asset : dir'[Final(a)] = dir[Final(a)]
  BY <1>1
<1>6. TemporaryIsApart' /\ GetIsSound' /\ AssetsAreWhole'
  BY <1>1, <1>3, <1>5, RemovalIsSound
<1> QED
  BY <1>3, <1>4, <1>6 DEF IInv

\* A new temporary file is empty.
LEMMA BeginIsSound ==
    ASSUME IInv, Alone, NEW f \in Fetcher, BeginDownload(f) \/ BeginExtract(f)
    PROVE  IInv'
<1>0. TypeOK /\ TemporaryIsApart /\ WorkIsSound /\ \A g \in Fetcher : g = f
  BY DEF IInv, Alone
<1>1. Order[fetch[f].n] \in Name /\ fetch[f].n \in 1..Cardinality(Asset)
  BY <1>0, FetchTyped, OrderTyped, Paths DEF FetchState
<1>2. PICK n \in Name : n = IF BeginDownload(f) THEN Image ELSE Order[fetch[f].n]
  BY <1>1, Paths
<1>3. PICK to \in {"copy", "extract"} :
          to = IF BeginDownload(f) THEN "copy" ELSE "extract"
  OBVIOUS
<1>4. /\ Create(f, Part(n), to) /\ to \in Phase
      /\ BeginDownload(f) => fetch[f].at = "get"
      /\ ~BeginDownload(f) => fetch[f].at = "create"
  BY <1>2, <1>3 DEF BeginDownload, BeginExtract, Step, Phase
<1>5. /\ TypeOK'
      /\ fetch'[f].at = to /\ fetch'[f].out = dir'[Part(n)] /\ fetch'[f].pos = 1
      /\ fetch'[f].release = fetch[f].release /\ fetch'[f].img = fetch[f].img
      /\ fetch'[f].n = fetch[f].n /\ fetch'[f].files = fetch[f].files
  BY <1>0, <1>4, CreateTyped
<1>6. /\ dir'[Part(n)] \in Inode /\ data'[dir'[Part(n)]] = <<>>
      /\ FinalsStay /\ ReadsStay /\ TemporaryIsApart'
  BY <1>0, <1>4, CreateStep
<1>7. fetch[f].release \in Release
  BY <1>0, <1>4 DEF WorkIsSound
<1>8. WorkIsSound'
  <2>1. HeadOf(fetch[f].release, 0) = <<>>
    BY <1>7, Files
  <2>2. /\ dir'[Part(n)] # None
        /\ data'[dir'[Part(n)]] = HeadOf(fetch'[f].release, fetch'[f].pos - 1)
    BY <1>0, <1>5, <1>6, <2>1, FilesTyped
  <2> QED
    BY <1>0, <1>2, <1>3, <1>5, <1>7, <2>2 DEF WorkIsSound, Leads
<1>9. ImageIsSound' /\ DoneIsSound' /\ GetIsSound' /\ AssetsAreWhole'
  BY <1>3, <1>4, <1>5, <1>6, PublishedStays
     DEF Extracting, Complete, Downloading
<1> QED
  BY <1>5, <1>6, <1>8, <1>9 DEF IInv

\* One turn of the loop that fills a temporary file: it adds the next chunk, and
\* when there is none, the file is whole.
LEMMA TurnIsSound ==
    ASSUME IInv, Alone, NEW f \in Fetcher, Download(f) \/ Extract(f)
    PROVE  IInv'
<1> DEFINE me == fetch[f]
<1>0. /\ TypeOK /\ TemporaryIsApart /\ WorkIsSound /\ ImageIsSound
      /\ \A g \in Fetcher : g = f
  BY DEF IInv, Alone
<1>1. /\ me \in FetchState /\ me.pos \in 1..(Chunks + 1) /\ Chunks \in Nat
      /\ me.n \in 1..Cardinality(Asset)
      /\ Order[me.n] \in Asset /\ Image \notin Asset
  BY <1>0, FetchTyped, OrderTyped, ValueAssumption DEF FetchState
<1>2. me.at = IF Download(f) THEN "copy" ELSE "extract"
  BY DEF Download, Extract, Step
<1>3. PICK n \in Name : n = IF Download(f) THEN Image ELSE Order[me.n]
  BY <1>1, Paths
<1>4. PICK to \in {"publish", "rename"} :
          to = IF Download(f) THEN "publish" ELSE "rename"
  OBVIOUS
<1>5. /\ me.release \in Release
      /\ me.out = dir[Part(n)] /\ dir[Part(n)] # None
      /\ data[dir[Part(n)]] = HeadOf(me.release, me.pos - 1)
  BY <1>0, <1>2, <1>3 DEF WorkIsSound, Leads
<1>6. /\ \/ /\ me.pos \in 1..Chunks
            /\ data' = [data EXCEPT ![dir[Part(n)]] =
                            Written(data[dir[Part(n)]], me.pos, me.release)]
            /\ fetch' = [fetch EXCEPT ![f].pos = me.pos + 1]
         \/ /\ me.pos = Chunks + 1
            /\ data' = data
            /\ fetch' = [fetch EXCEPT ![f].at = to, ![f].out = None]
      /\ dir' = dir /\ get' = get /\ manifest' = manifest
  <2>1. CASE Download(f)
    BY <1>1, <1>4, <1>5, <2>1 DEF Download
  <2>2. CASE Extract(f) /\ ~Download(f)
    <3>1. data[me.img] = FileOf(me.release)
      BY <1>0, <1>2, <2>2 DEF ImageIsSound, Leads, Extracting
    <3>2. Len(data[me.img]) = Chunks /\ \A k \in 1..Chunks : data[me.img][k] = me.release
      BY <1>5, <3>1, Files
    <3> QED
      BY <1>1, <1>4, <1>5, <2>2, <3>2 DEF Extract
  <2> QED
    BY <2>1, <2>2
<1>7. CASE me.pos \in 1..Chunks
  <2>1. PICK x : x = HeadOf(me.release, me.pos)
    OBVIOUS
  <2>2. /\ x = Written(data[dir[Part(n)]], me.pos, me.release) /\ x \in Content
        /\ x = HeadOf(me.release, me.pos)
    BY <1>1, <1>5, <1>7, <2>1, Files
  <2>3. /\ data' = [data EXCEPT ![dir[Part(n)]] = x]
        /\ fetch' = [fetch EXCEPT ![f].pos = me.pos + 1]
    BY <1>1, <1>6, <1>7, <2>2
  <2>4. /\ data'[dir'[Part(n)]] = x
        /\ FinalsStay /\ ReadsStay /\ TemporaryIsApart'
    BY <1>0, <1>5, <1>6, <2>3, WriteStep
  <2>5. /\ fetch' \in [Fetcher -> FetchState]
        /\ fetch'[f].at = me.at /\ fetch'[f].out = me.out /\ fetch'[f].pos = me.pos + 1
        /\ fetch'[f].release = me.release /\ fetch'[f].img = me.img
        /\ fetch'[f].n = me.n /\ fetch'[f].files = me.files
    BY <1>0, <1>1, <1>7, <2>3, FetchTyped DEF FetchState
  <2>6. TypeOK'
    BY <1>0, <1>6, <2>2, <2>3, <2>5 DEF TypeOK, FetchState
  <2>7. WorkIsSound'
    <3>1. /\ dir'[Part(n)] # None /\ fetch'[f].out = dir'[Part(n)]
          /\ data'[dir'[Part(n)]] = HeadOf(fetch'[f].release, fetch'[f].pos - 1)
      BY <1>1, <1>5, <1>6, <2>2, <2>4, <2>5
    <3> QED
      BY <1>0, <1>2, <1>3, <1>5, <2>5, <3>1 DEF WorkIsSound, Leads
  <2>8. ImageIsSound' /\ DoneIsSound' /\ GetIsSound' /\ AssetsAreWhole'
    BY <1>2, <2>4, <2>5, <2>6, PublishedStays
     DEF Extracting, Complete, Downloading
  <2> QED
    BY <2>4, <2>6, <2>7, <2>8 DEF IInv
<1>8. CASE me.pos = Chunks + 1
  <2>1. /\ fetch' = [fetch EXCEPT ![f].at = to, ![f].out = None]
        /\ data' = data /\ dir' = dir /\ get' = get
    BY <1>1, <1>6, <1>8
  <2>2. /\ fetch' \in [Fetcher -> FetchState]
        /\ fetch'[f].at = to
        /\ fetch'[f].release = me.release /\ fetch'[f].img = me.img
        /\ fetch'[f].n = me.n /\ fetch'[f].files = me.files
    BY <1>0, <1>1, <2>1, FetchTyped DEF FetchState, Phase
  <2>3. TypeOK'
    BY <1>0, <1>6, <2>1, <2>2 DEF TypeOK, FetchState
  <2>4. FinalsStay /\ ReadsStay /\ TemporaryIsApart'
    BY <1>0, <2>1 DEF FinalsStay, ReadsStay, TemporaryIsApart
  <2>5. HeadOf(me.release, me.pos - 1) = FileOf(me.release)
    BY <1>1, <1>5, <1>8, Files
  <2>6. WorkIsSound'
    BY <1>0, <1>3, <1>4, <1>5, <2>1, <2>2, <2>5 DEF WorkIsSound, Leads
  <2>7. ImageIsSound' /\ DoneIsSound' /\ GetIsSound' /\ AssetsAreWhole'
    BY <1>2, <1>4, <2>2, <2>3, <2>4, PublishedStays
     DEF Extracting, Complete, Downloading
  <2> QED
    BY <2>3, <2>4, <2>6, <2>7 DEF IInv
<1> QED
  BY <1>6, <1>7, <1>8

\* A temporary file that gets its final name is whole, and apart from the
\* others still.
LEMMA PublishIsSound ==
    ASSUME IInv, Alone, NEW f \in Fetcher, PublishImage(f) \/ PublishAsset(f)
    PROVE  IInv'
<1> DEFINE me == fetch[f]
<1>0. /\ TypeOK /\ TemporaryIsApart /\ WorkIsSound /\ ImageIsSound /\ DoneIsSound
      /\ GetIsSound /\ AssetsAreWhole
      /\ \A g \in Fetcher : g = f
  BY DEF IInv, Alone
<1>1. /\ me \in FetchState /\ me.n \in 1..Cardinality(Asset)
      /\ Order[me.n] \in Asset /\ Image \notin Asset
  BY <1>0, FetchTyped, OrderTyped, ValueAssumption DEF FetchState
<1>2. me.at = IF PublishImage(f) THEN "publish" ELSE "rename"
  BY DEF PublishImage, PublishAsset, Step
<1>3. PICK n \in Name : n = IF PublishImage(f) THEN Image ELSE Order[me.n]
  BY <1>1, Paths
<1>4. PICK to \in {"open", "sum"} : to = IF PublishImage(f) THEN "open" ELSE "sum"
  OBVIOUS
<1>5. /\ dir' = Renamed(Part(n), Final(n))
      /\ fetch' = [fetch EXCEPT ![f].at = to]
      /\ manifest' = manifest /\ get' = get /\ Free
  BY <1>3, <1>4 DEF PublishImage, PublishAsset
<1>6. /\ fetch' \in [Fetcher -> FetchState]
      /\ fetch'[f].at = to
      /\ fetch'[f].release = me.release /\ fetch'[f].img = me.img
      /\ fetch'[f].n = me.n /\ fetch'[f].files = me.files
  BY <1>0, <1>4, <1>5, FetchTyped DEF FetchState, Phase
<1>7. /\ Part(n) \in Path /\ Final(n) \in Path /\ Part(n) # Final(n)
      /\ me.release \in Release
      /\ dir[Part(n)] \in Inode /\ data[dir[Part(n)]] = FileOf(me.release)
  BY <1>0, <1>2, <1>3, Paths, FilesTyped DEF WorkIsSound, Leads
<1>8. /\ dir' \in [Path -> Inode \cup {None}]
      /\ dir'[Part(n)] = None /\ dir'[Final(n)] = dir[Part(n)]
      /\ \A p \in Path : p # Part(n) /\ p # Final(n) => dir'[p] = dir[p]
  BY <1>0, <1>5, <1>7 DEF TypeOK, Renamed
<1>9. /\ data' \in [Inode -> Content]
      /\ \A p \in Path : dir'[p] # None => data'[dir'[p]] = data[dir'[p]]
      /\ \A c \in Client : get[c].fd # None => data'[get[c].fd] = data[get[c].fd]
  BY <1>0, <1>5, <1>8, FreeStep, FilesTyped
<1>10. /\ dir'[Final(n)] # None /\ data'[dir'[Final(n)]] = FileOf(me.release)
       /\ \A m \in Name : m # n => /\ dir'[Final(m)] = dir[Final(m)]
                                   /\ dir[Final(m)] # None =>
                                          data'[dir[Final(m)]] = data[dir[Final(m)]]
  BY <1>0, <1>7, <1>8, <1>9, Paths, FilesTyped
<1>11. TypeOK'
  BY <1>0, <1>5, <1>6, <1>8, <1>9 DEF TypeOK, FetchState
<1>12. TemporaryIsApart'
  BY <1>0, <1>5, <1>8, Paths DEF TemporaryIsApart
<1>13. WorkIsSound'
  BY <1>0, <1>4, <1>6, <1>7 DEF WorkIsSound
<1>14. ImageIsSound'
  <2>1. CASE PublishImage(f)
    BY <1>0, <1>3, <1>4, <1>6, <1>10, <2>1 DEF ImageIsSound, Leads, Extracting
  <2>2. CASE ~PublishImage(f)
    <3>1. n # Image /\ Image \in Name
      BY <1>1, <1>3, <2>2, Paths
    <3>2. Leads(Final(Image), FileOf(me.release)) /\ me.img = dir[Final(Image)]
      BY <1>0, <1>2, <2>2 DEF ImageIsSound, Extracting
    <3> QED
      BY <1>0, <1>6, <1>10, <3>1, <3>2 DEF ImageIsSound, Leads
  <2> QED
    BY <2>1, <2>2
<1>15. DoneIsSound'
  <2>1. CASE PublishImage(f)
    BY <1>0, <1>2, <1>4, <1>6, <2>1 DEF DoneIsSound, Extracting, Complete, Downloading
  <2>2. CASE ~PublishImage(f)
    <3>1. \A i \in DOMAIN Order : i < me.n =>
              /\ dir'[Final(Order[i])] # None
              /\ data'[dir'[Final(Order[i])]] = FileOf(me.release)
              /\ me.files[Order[i]] = FileOf(me.release)
      <4>1. \A i \in DOMAIN Order : Order[i] \in Name
        BY OrderTyped, Paths
      <4> QED
        BY <1>0, <1>2, <1>10, <2>2, <4>1 DEF DoneIsSound, Leads, Extracting
    <3>2. dir'[Final(Order[me.n])] # None /\ data'[dir'[Final(Order[me.n])]] = FileOf(me.release)
      BY <1>3, <1>10, <2>2
    <3> QED
      BY <1>0, <1>4, <1>6, <2>2, <3>1, <3>2
         DEF DoneIsSound, Leads, Extracting, Complete, Downloading
  <2> QED
    BY <2>1, <2>2
<1>16. GetIsSound'
  BY <1>0, <1>5, <1>9 DEF GetIsSound
<1>17. AssetsAreWhole'
  <2>1. \A a \in Asset : dir'[Final(a)] # None => Whole(data'[dir'[Final(a)]])
    BY <1>0, <1>7, <1>10, Paths DEF AssetsAreWhole, ContentAt, Whole
  <2> QED
    BY <1>0, <1>5, <2>1 DEF AssetsAreWhole, ContentAt, Whole
<1> QED
  BY <1>11, <1>12, <1>13, <1>14, <1>15, <1>16, <1>17 DEF IInv

\* The steps that only look at files: the image is opened, and an asset is
\* summed under its final name.
LEMMA ReadIsSound ==
    ASSUME IInv, Alone, NEW f \in Fetcher, OpenImage(f) \/ Sum(f)
    PROVE  IInv'
<1> DEFINE me == fetch[f]
<1>0. /\ TypeOK /\ TemporaryIsApart /\ WorkIsSound /\ ImageIsSound /\ DoneIsSound
      /\ GetIsSound /\ AssetsAreWhole
      /\ \A g \in Fetcher : g = f
  BY DEF IInv, Alone
<1>1. /\ me \in FetchState /\ me.n \in 1..Cardinality(Asset)
      /\ Cardinality(Asset) \in Nat
      /\ Order[me.n] \in Asset /\ Order[me.n] \in Name /\ Image \in Name
      /\ DOMAIN Order = 1..Cardinality(Asset) /\ Len(Order) = Cardinality(Asset)
  BY <1>0, FetchTyped, OrderTyped, Paths DEF FetchState
<1>2. UNCHANGED <<dir, data, manifest, get>>
  BY DEF OpenImage, Sum
<1>3. CASE OpenImage(f)
  <2>1. /\ fetch' = [fetch EXCEPT ![f].at = "create", ![f].img = dir[Final(Image)]]
        /\ me.at = "open"
    BY <1>3 DEF OpenImage, Step
  <2>2. dir[Final(Image)] # None /\ data[dir[Final(Image)]] = FileOf(me.release)
    BY <1>0, <2>1 DEF ImageIsSound, Leads
  <2>3. dir[Final(Image)] \in Inode
    BY <1>0, <2>2, Paths, FilesTyped
  <2>4. /\ fetch' \in [Fetcher -> FetchState]
        /\ fetch'[f].at = "create" /\ fetch'[f].img = dir[Final(Image)]
        /\ fetch'[f].release = me.release /\ fetch'[f].n = me.n
        /\ fetch'[f].files = me.files
    BY <1>0, <2>1, <2>3, FetchTyped DEF FetchState, Phase
  <2>5. TypeOK'
    BY <1>0, <1>2, <2>4 DEF TypeOK, FetchState
  <2>6. WorkIsSound' /\ ImageIsSound'
    BY <1>0, <1>2, <2>1, <2>2, <2>4 DEF WorkIsSound, ImageIsSound, Leads, Extracting
  <2>7. DoneIsSound'
    <3>1. me.n = 1 /\ \A i \in DOMAIN Order : ~(i < me.n)
      BY <1>0, <1>1, <2>1 DEF DoneIsSound, Downloading
    <3> QED
      BY <1>0, <2>4, <3>1 DEF DoneIsSound, Extracting, Complete, Downloading
  <2>8. TemporaryIsApart' /\ GetIsSound' /\ AssetsAreWhole'
    BY <1>0, <1>2 DEF TemporaryIsApart, GetIsSound, AssetsAreWhole, ContentAt
  <2> QED
    BY <2>5, <2>6, <2>7, <2>8 DEF IInv
<1>4. CASE Sum(f)
  <2> DEFINE last == me.n = Len(Order)
             sum == data[dir[Final(Order[me.n])]]
  <2>1. /\ me.at = "sum"
        /\ fetch' = [fetch EXCEPT ![f].files[Order[me.n]] = sum,
                                  ![f].n = IF last THEN me.n ELSE me.n + 1,
                                  ![f].at = IF last THEN "clean" ELSE "create",
                                  ![f].img = IF last THEN None ELSE me.img]
    BY <1>4 DEF Sum, Step
  <2>2. /\ dir[Final(Order[me.n])] # None /\ sum = FileOf(me.release)
        /\ dir[Final(Image)] # None /\ data[dir[Final(Image)]] = FileOf(me.release)
        /\ me.img = dir[Final(Image)]
    BY <1>0, <2>1 DEF DoneIsSound, ImageIsSound, Leads, Extracting
  <2>3. sum \in Content
    BY <1>0, <1>1, <2>2, Paths, FilesTyped
  <2> HIDE DEF sum
  <2>4. /\ fetch' \in [Fetcher -> FetchState]
        /\ fetch'[f].at = IF last THEN "clean" ELSE "create"
        /\ fetch'[f].n = IF last THEN me.n ELSE me.n + 1
        /\ fetch'[f].release = me.release
        /\ fetch'[f].img = IF last THEN None ELSE me.img
        /\ fetch'[f].files = [me.files EXCEPT ![Order[me.n]] = sum]
    BY <1>0, <1>1, <2>1, <2>3, FetchTyped DEF FetchState, Phase
  <2>5. TypeOK'
    BY <1>0, <1>2, <2>4 DEF TypeOK, FetchState
  <2>6. WorkIsSound'
    <3>1. me.release \in Release
      BY <1>0, <2>1 DEF WorkIsSound
    <3> QED
      BY <1>0, <2>4, <3>1 DEF WorkIsSound
  <2>7. ImageIsSound'
    BY <1>0, <1>2, <2>2, <2>4 DEF ImageIsSound, Leads, Extracting
  <2>8. DoneIsSound'
    <3>1. \A i \in DOMAIN Order : i < me.n =>
              /\ dir[Final(Order[i])] # None /\ data[dir[Final(Order[i])]] = FileOf(me.release)
              /\ me.files[Order[i]] = FileOf(me.release)
      BY <1>0, <2>1 DEF DoneIsSound, Leads, Extracting
    <3>2. \A i \in DOMAIN Order : i <= me.n =>
              /\ dir[Final(Order[i])] # None /\ data[dir[Final(Order[i])]] = FileOf(me.release)
              /\ fetch'[f].files[Order[i]] = FileOf(me.release)
      BY <1>1, <2>2, <2>4, <3>1, OrderTyped DEF FetchState, sum
    <3>3. \A i \in DOMAIN Order : last \/ i < fetch'[f].n => i <= me.n
      BY <1>1, <2>4
    <3> QED
      BY <1>0, <1>2, <2>4, <3>2, <3>3 DEF DoneIsSound, Leads, Extracting, Complete, Downloading
  <2>9. TemporaryIsApart' /\ GetIsSound' /\ AssetsAreWhole'
    BY <1>0, <1>2 DEF TemporaryIsApart, GetIsSound, AssetsAreWhole, ContentAt
  <2> QED
    BY <2>5, <2>6, <2>7, <2>8, <2>9 DEF IInv
<1> QED
  BY <1>3, <1>4

\* The image may go: the assets are all there.
LEMMA RemoveIsSound ==
    ASSUME IInv, Alone, NEW f \in Fetcher, RemoveImage(f)
    PROVE  IInv'
<1>0. TypeOK /\ DoneIsSound /\ WorkIsSound /\ \A g \in Fetcher : g = f
  BY DEF IInv, Alone
<1>1. /\ fetch' = [fetch EXCEPT ![f].at = "manifest"] /\ fetch[f].at = "clean"
      /\ dir' \in {Removed(Final(Image)), dir} /\ manifest' = manifest /\ get' = get /\ Free
  BY DEF RemoveImage, Step
<1>2. /\ fetch' \in [Fetcher -> FetchState]
      /\ fetch'[f].at = "manifest" /\ fetch'[f].release = fetch[f].release
      /\ fetch'[f].files = fetch[f].files
  BY <1>0, <1>1, FetchTyped DEF FetchState, Phase
<1>3. /\ dir' \in [Path -> Inode \cup {None}]
      /\ \A p \in Path : dir'[p] \in {dir[p], None}
      /\ \A a \in Asset : dir'[Final(a)] = dir[Final(a)]
  <2>1. \A a \in Asset : a \in Name /\ Final(a) \in Path /\ Final(a) # Final(Image)
    BY Paths
  <2> QED
    BY <1>0, <1>1, <2>1 DEF TypeOK, Removed
<1>4. TypeOK'
  <2>1. data' \in [Inode -> Content]
    BY <1>0, <1>1, FreeStep
  <2> QED
    BY <1>0, <1>1, <1>2, <1>3, <2>1 DEF TypeOK, FetchState
<1>5. /\ TemporaryIsApart' /\ GetIsSound' /\ AssetsAreWhole'
      /\ \A p \in Path : dir'[p] # None => data'[dir'[p]] = data[dir[p]]
  BY <1>1, <1>3, <1>4, RemovalIsSound
<1>6. WorkIsSound' /\ ImageIsSound'
  BY <1>0, <1>1, <1>2 DEF WorkIsSound, ImageIsSound, Extracting
<1>7. DoneIsSound'
  <2>1. \A i \in DOMAIN Order : Order[i] \in Asset /\ Final(Order[i]) \in Path
    BY OrderTyped, Paths
  <2> QED
    BY <1>0, <1>1, <1>2, <1>3, <1>5, <2>1
       DEF DoneIsSound, Leads, Extracting, Complete, Downloading
<1> QED
  BY <1>4, <1>5, <1>6, <1>7 DEF IInv

-----------------------------------------------------------------------------
(* The downloads                                                            *)

\* What clients do is nothing to the fetch.
LEMMA FetchStays ==
    ASSUME IInv, dir' = dir, fetch' = fetch, Free \/ data' = data
    PROVE  WorkIsSound' /\ ImageIsSound' /\ DoneIsSound'
<1>0. TypeOK /\ WorkIsSound /\ ImageIsSound /\ DoneIsSound
  BY DEF IInv
<1>1. \A p \in Path : dir[p] # None => data'[dir[p]] = data[dir[p]]
  BY <1>0, FreeStep, FilesTyped
<1>2. \A f \in Fetcher : fetch[f].n \in 1..Cardinality(Asset)
  BY <1>0, FetchTyped DEF FetchState
<1>3. \A i \in 1..Cardinality(Asset) : /\ Order[i] \in Name
                                       /\ Part(Order[i]) \in Path /\ Final(Order[i]) \in Path
  BY OrderTyped, Paths
<1>4. Part(Image) \in Path /\ Final(Image) \in Path
  BY Paths
<1>5. WorkIsSound'
  BY <1>0, <1>1, <1>2, <1>3, <1>4 DEF WorkIsSound, Leads
<1>6. ImageIsSound'
  BY <1>0, <1>1, <1>4 DEF ImageIsSound, Leads
<1>7. DoneIsSound'
  BY <1>0, <1>1, <1>2, <1>3, OrderTyped DEF DoneIsSound, Leads
<1> QED
  BY <1>5, <1>6, <1>7

\* What a step of client c leaves it with.
Served(c) ==
    /\ get' \in [Client -> GetState]
    /\ \A d \in Client : d # c => get'[d] = get[d]
    /\ \A n \in Name : dir[Part(n)] # None => get'[c].fd # dir[Part(n)]
    /\ get'[c].fd # None =>
           \E r \in Release : /\ data'[get'[c].fd] = FileOf(r)
                              /\ get'[c].size = Chunks /\ get'[c].got = HeadOf(r, 1)
    /\ get'[c] # NoGet /\ get'[c].fd = None => Whole(get'[c].got)

\* A client is sent the file that it opened, to its end, whatever has become of
\* the name.
LEMMA ClientIsSound ==
    ASSUME IInv, NEW c \in Client,
           (\E a \in Wanted : OpenAsset(c, a)) \/ SendRest(c) \/ Close(c)
    PROVE  IInv'
<1>0. /\ TypeOK /\ TemporaryIsApart /\ GetIsSound /\ AssetsAreWhole
  BY DEF IInv
<1>1. dir' = dir /\ manifest' = manifest /\ fetch' = fetch /\ (Free \/ data' = data)
  BY DEF OpenAsset, SendRest, Close
<1>2. WorkIsSound' /\ ImageIsSound' /\ DoneIsSound'
  BY <1>1, FetchStays
<1>3. data' \in [Inode -> Content]
  BY <1>0, <1>1, FreeStep DEF TypeOK
<1>4. NoGet \in GetState /\ NoGet.fd = None
  BY DEF GetState, NoGet
<1> SUFFICES Served(c)
  <2> SUFFICES ASSUME Served(c) PROVE IInv'
    OBVIOUS
  <2>0. /\ get' \in [Client -> GetState]
        /\ \A d \in Client : d # c => get'[d] = get[d]
    BY DEF Served
  <2>1. TypeOK'
    BY <1>0, <1>1, <1>3, <2>0 DEF TypeOK, GetState
  <2>2. TemporaryIsApart'
    BY <1>0, <1>1, <2>0 DEF TemporaryIsApart, Served
  <2>3. /\ \A p \in Path : dir[p] # None => data'[dir[p]] = data[dir[p]]
        /\ \A d \in Client : get'[d].fd # None => data'[get'[d].fd] = data[get'[d].fd]
    <3>1. \A d \in Client : get'[d].fd # None => get'[d].fd \in Inode
      BY <1>4, <2>0 DEF GetState
    <3> QED
      BY <1>0, <1>1, <3>1, FreeStep, FilesTyped
  <2>4. GetIsSound'
    BY <1>0, <2>0, <2>3 DEF GetIsSound, Served
  <2>5. AssetsAreWhole'
    BY <1>0, <1>1, <2>0, <2>3, Paths DEF AssetsAreWhole, ContentAt, Whole, Served
  <2> QED
    BY <1>2, <2>1, <2>2, <2>4, <2>5 DEF IInv
<1>5. ASSUME NEW a \in Wanted, OpenAsset(c, a)
      PROVE  Served(c)
  <2>1. a \in Asset /\ a \in Name
    BY OrderAssumption, Paths
  <2>2. dir[Final(a)] # None /\ dir[Final(a)] \in Inode
    BY <1>0, <1>5, <2>1, Paths, FilesTyped DEF OpenAsset
  <2>3. PICK r \in Release : data[dir[Final(a)]] = FileOf(r)
    BY <1>0, <2>1, <2>2 DEF AssetsAreWhole, ContentAt, Whole
  <2>4. /\ ContentAt(a) = FileOf(r) /\ Len(ContentAt(a)) = Chunks
        /\ SubSeq(ContentAt(a), 1, 1) = HeadOf(r, 1)
    BY <2>2, <2>3, Files DEF ContentAt
  <2> DEFINE g == [asset |-> a, fd |-> dir[Final(a)], size |-> Chunks, got |-> HeadOf(r, 1)]
  <2>5. get' = [get EXCEPT ![c] = g] /\ data' = data
    BY <1>5, <2>4 DEF OpenAsset
  <2>6. HeadOf(r, 1) \in Content /\ Chunks \in 0..Chunks
    BY ValueAssumption, Files
  <2>7. /\ g \in GetState /\ g.fd = dir[Final(a)] /\ g.size = Chunks
        /\ g.got = HeadOf(r, 1)
    BY <2>1, <2>2, <2>6 DEF GetState
  <2> HIDE DEF g
  <2>8. /\ get' \in [Client -> GetState] /\ get'[c] = g
        /\ \A d \in Client : d # c => get'[d] = get[d]
    BY <1>0, <2>5, <2>7, FetchTyped
  <2>9. \A n \in Name : dir[Part(n)] # None => dir[Final(a)] # dir[Part(n)]
    BY <1>0, <2>1, Paths DEF TemporaryIsApart
  <2> QED
    BY <2>2, <2>3, <2>5, <2>7, <2>8, <2>9, FilesTyped DEF Served
<1>6. CASE SendRest(c)
  <2>1. /\ get[c].fd # None
        /\ get' = [get EXCEPT ![c].got = get[c].got \o SubSeq(data[get[c].fd], 2, get[c].size),
                              ![c].fd = None]
    BY <1>6 DEF SendRest
  <2>2. PICK r \in Release : /\ data[get[c].fd] = FileOf(r)
                             /\ get[c].size = Chunks /\ get[c].got = HeadOf(r, 1)
    BY <1>0, <2>1 DEF GetIsSound
  <2>3. get[c].got \o SubSeq(data[get[c].fd], 2, get[c].size) = FileOf(r)
    BY <2>2, Files
  <2>4. get' = [get EXCEPT ![c].got = FileOf(r), ![c].fd = None]
    BY <2>1, <2>3
  <2>5. FileOf(r) \in Content
    BY Files
  <2>6. get[c] \in [asset : Asset, fd : Inode \cup {None}, size : 0..Chunks, got : Content]
    BY <1>0, <1>4, <2>1, FetchTyped DEF GetState
  <2>7. /\ get' \in [Client -> GetState]
        /\ get'[c].fd = None /\ get'[c].got = FileOf(r)
        /\ \A d \in Client : d # c => get'[d] = get[d]
    BY <1>0, <2>4, <2>5, <2>6, FetchTyped DEF GetState
  <2> QED
    BY <2>7 DEF Whole, Served
<1>7. CASE Close(c)
  <2>1. get' = [get EXCEPT ![c] = NoGet]
    BY <1>7 DEF Close
  <2>2. /\ get' \in [Client -> GetState] /\ get'[c] = NoGet
        /\ \A d \in Client : d # c => get'[d] = get[d]
    BY <1>0, <1>4, <2>1, FetchTyped
  <2> QED
    BY <1>4, <2>2 DEF Served
<1> QED
  BY <1>5, <1>6, <1>7

-----------------------------------------------------------------------------
(* The theorems                                                             *)

\* Every step of one fetch and of any number of downloads keeps the files in
\* order.
LEMMA EveryStep == Alone /\ IInv /\ [Next]_vars => IInv'
<1> SUFFICES ASSUME Alone, IInv, [Next]_vars PROVE IInv'
  OBVIOUS
<1>1. CASE UNCHANGED vars
  <2>1. /\ TypeOK' /\ TemporaryIsApart' /\ WorkIsSound' /\ ImageIsSound'
        /\ DoneIsSound' /\ GetIsSound' /\ AssetsAreWhole'
    BY <1>1 DEF vars, IInv, TypeOK, TemporaryIsApart, WorkIsSound, ImageIsSound, DoneIsSound,
       Leads, GetIsSound, AssetsAreWhole, ContentAt
  <2> QED
    BY <2>1 DEF IInv
<1> QED
  BY <1>1, StartIsSound, BeginIsSound, TurnIsSound, PublishIsSound, ReadIsSound, RemoveIsSound,
     IdleIsSound, ClientIsSound DEF Next

\* With one fetch at a time, temporary files stay apart from all others, and
\* what is published or being read is whole.
THEOREM Invariant == ASSUME Alone PROVE Spec => []IInv
<1>1. Init => IInv
  <2> SUFFICES ASSUME Init PROVE IInv
    OBVIOUS
  <2>1. /\ \A f \in Fetcher : fetch[f] = NoFetch
        /\ \A c \in Client : get[c] = NoGet
        /\ \A p \in Path : dir[p] = None
    BY DEF Init
  <2>2. TypeOK
    <3>1. <<>> \in Content /\ NoGet \in GetState
      BY ValueAssumption DEF Content, GetState
    <3> QED
      BY <3>1, FetchTyped DEF Init, TypeOK, FetchState, GetState
  <2>3. NoGet.fd = None
    BY DEF NoGet
  <2>4. TemporaryIsApart /\ GetIsSound /\ AssetsAreWhole
    BY <2>1, <2>3, Paths DEF TemporaryIsApart, GetIsSound, AssetsAreWhole
  <2>5. WorkIsSound /\ ImageIsSound /\ DoneIsSound
    BY <2>1, FetchTyped
       DEF WorkIsSound, ImageIsSound, DoneIsSound, Extracting, Complete, Downloading
  <2> QED
    BY <2>2, <2>4, <2>5 DEF IInv
<1>2. IInv /\ [Next]_vars => IInv'
  BY EveryStep
<1> QED
  BY <1>1, <1>2, PTL DEF Spec

\* No step leaves the types, and every file stays within its chunks.
THEOREM TypeCorrect == ASSUME Alone PROVE Spec => []TypeOK
<1>1. IInv => TypeOK
  BY DEF IInv
<1> QED
  BY <1>1, Invariant, PTL

\* Wherever a fetch dies or fails, a file under an asset's name is complete, and
\* so is the file of every machine that has received what it was promised.
THEOREM FilesAreWhole == ASSUME Alone PROVE Spec => []AssetsAreWhole
<1>1. IInv => AssetsAreWhole
  BY DEF IInv
<1> QED
  BY <1>1, Invariant, PTL

\* A fetch that succeeds leaves the files of the release it has downloaded, and
\* a manifest that says so.
THEOREM SuccessLeavesItsRelease == ASSUME Alone PROVE Spec => SuccessIsItsRelease
<1> DEFINE Says == manifest' # manifest =>
                       \E f \in Fetcher : \A a \in Asset :
                           /\ manifest'[a] = FileOf(fetch[f].release)
                           /\ ContentAt(a)' = FileOf(fetch[f].release)
<1>1. IInv /\ [Next]_vars => [Says]_vars
  <2> SUFFICES ASSUME IInv, Next, manifest' # manifest
               PROVE  \E f \in Fetcher : \A a \in Asset :
                           /\ manifest'[a] = FileOf(fetch[f].release)
                           /\ ContentAt(a)' = FileOf(fetch[f].release)
    OBVIOUS
  <2>1. PICK f \in Fetcher : WriteManifest(f)
    BY DEF Next, Start, BeginDownload, BeginExtract, Create, Download, PublishImage,
       DownloadFails, OpenImage, Extract, PublishAsset, Sum, ExtractFails, RemoveImage,
       ManifestFails, Die, OpenAsset, SendRest, Close
  <2>2. /\ fetch[f].at \in Complete
        /\ manifest' = fetch[f].files /\ dir' = dir /\ data' = data
    BY <2>1 DEF WriteManifest, Step, Complete
  <2>3. ASSUME NEW a \in Asset
        PROVE  /\ manifest'[a] = FileOf(fetch[f].release)
               /\ ContentAt(a)' = FileOf(fetch[f].release)
    <3>1. PICK i \in DOMAIN Order : Order[i] = a
      BY OrderTyped
    <3>2. /\ dir[Final(a)] # None /\ data[dir[Final(a)]] = FileOf(fetch[f].release)
          /\ fetch[f].files[a] = FileOf(fetch[f].release)
      BY <2>2, <3>1 DEF IInv, DoneIsSound, Leads
    <3> QED
      BY <2>2, <3>2 DEF ContentAt
  <2> QED
    BY <2>3
<1> QED
  BY <1>1, Invariant, PTL DEF Spec, SuccessIsItsRelease

=============================================================================
