----------------------------- MODULE AssetCache ------------------------------
(***************************************************************************)
(* One target's directory in the data dir (internal/cache): `pxe-beacon    *)
(* fetch` processes download an ISO, extract the target's assets from it   *)
(* and write the manifest, while the HTTP server streams the assets to     *)
(* booting machines (handleAsset).                                         *)
(*                                                                         *)
(* A file is an inode: a name leads to one, Create truncates the one its   *)
(* name leads to, Rename moves a name, and an open descriptor keeps its    *)
(* inode whatever happens to the names.  Contents are sequences of chunks, *)
(* and a chunk is the release it came from: chunk i of an asset lies in    *)
(* chunk i of the image, chunk 1 of which also holds what OpenImage reads. *)
(***************************************************************************)
EXTENDS Naturals, Sequences, FiniteSets

CONSTANTS
    Fetcher,        \* fetch processes that can run at once
    Client,         \* downloads the HTTP server can have in progress
    Asset,          \* the files of the target's spec
    Order,          \* ... in the order of TargetSpec.Dests
    Wanted,         \* ... and those that clients ask for (bound)
    Release,        \* what the spec's URL delivers; changes with the program
    Chunks,         \* chunks of a file (bound)
    PerName,        \* inodes that one name and its .part can use up (bound)
    None            \* no inode, no release, no manifest; an idle process

ASSUME OrderAssumption ==
    /\ IsFiniteSet(Asset) /\ Asset # {}
    /\ Wanted \subseteq Asset
    /\ Order \in [1..Cardinality(Asset) -> Asset]
    /\ \A a \in Asset : \E i \in DOMAIN Order : Order[i] = a

\* What a write beyond the end of a file leaves before it.
Hole == "hole"

\* The names in the directory: the downloaded image, the assets, and for
\* each the temporary file that is renamed to it.
Image == "_download.iso"
Name == {Image} \cup Asset
Path == Name \X {"", ".part"}

Final(n) == <<n, "">>
Part(n) == <<n, ".part">>

\* Files are renamed from n.part to n only, so every name has its own inodes.
Inode == Name \X (1..PerName)

ASSUME ValueAssumption ==
    /\ Chunks \in Nat \ {0}
    /\ Image \notin Asset
    /\ None \notin Release \cup Inode

Content == UNION {[1..n -> Release \cup {Hole}] : n \in 0..Chunks}

VARIABLES
    dir,            \* dir[p]: the inode p leads to, or None
    data,           \* data[i]: the content of inode i
    manifest,       \* .pxe-beacon-fetched: the content of each asset, or None
    fetch,          \* the fetch processes
    get             \* the downloads in progress

vars == <<dir, data, manifest, fetch, get>>

Phase == {"idle", "get", "copy", "publish", "open", "create", "extract",
          "rename", "sum", "clean", "manifest"}

NoFetch == [at |-> "idle", force |-> FALSE, release |-> None, img |-> None,
            out |-> None, pos |-> 1, n |-> 1, files |-> [a \in Asset |-> <<>>]]
NoGet == [asset |-> None, fd |-> None, size |-> 0, got |-> <<>>]

TypeOK ==
    /\ dir \in [Path -> Inode \cup {None}]
    /\ data \in [Inode -> Content]
    /\ manifest \in [Asset -> Content] \cup {None}
    /\ fetch \in [Fetcher -> [at : Phase, force : BOOLEAN,
                              release : Release \cup {None},
                              img : Inode \cup {None}, out : Inode \cup {None},
                              pos : 1..(Chunks + 1), n : 1..Cardinality(Asset),
                              files : [Asset -> Content]]]
    /\ get \in [Client -> [asset : Asset, fd : Inode \cup {None}, size : 0..Chunks,
                           got : Content] \cup {NoGet}]

Init ==
    /\ dir = [p \in Path |-> None]
    /\ data = [i \in Inode |-> <<>>]
    /\ manifest = None
    /\ fetch = [f \in Fetcher |-> NoFetch]
    /\ get = [c \in Client |-> NoGet]

-----------------------------------------------------------------------------
(* The file system                                                          *)

InUse(i) ==
    \/ \E p \in Path : dir[p] = i
    \/ \E f \in Fetcher : i \in {fetch[f].img, fetch[f].out}
    \/ \E c \in Client : get[c].fd = i

\* The inodes that a new file of that name can get.
Unused(n) == {i \in {n} \X (1..PerName) : ~InUse(i)}

\* The inode os.Create(p) opens: the one p leads to, or a new one.
Opened(p) == IF dir[p] # None THEN dir[p] ELSE CHOOSE i \in Unused(p[1]) : TRUE

\* The content c after x was written at chunk pos.
Written(c, pos, x) ==
    [i \in 1..(IF pos > Len(c) THEN pos ELSE Len(c)) |->
        IF i = pos THEN x ELSE IF i <= Len(c) THEN c[i] ELSE Hole]

\* dir after os.Rename(p, q) and after os.Remove(p).
Renamed(p, q) == [dir EXCEPT ![q] = dir[p], ![p] = None]
Removed(p) == [dir EXCEPT ![p] = None]

\* Inodes that nothing leads to any more are freed.
Free == data' = [i \in Inode |-> IF InUse(i)' THEN data[i] ELSE <<>>]

\* What os.Open finds under an asset's name (nothing: no file, or an empty one).
ContentAt(a) ==
    IF dir[Final(a)] = None THEN <<>> ELSE data[dir[Final(a)]]

\* Cache.IsPopulated: a manifest, and no asset missing or empty.
IsPopulated == manifest # None /\ \A a \in Asset : ContentAt(a) # <<>>

-----------------------------------------------------------------------------
(* pxe-beacon fetch                                                         *)

Step(f, from) == fetch[f].at = from

\* runFetch and Fetch: nothing to do for a populated target without -force.
Start(f, force, r) ==
    /\ Step(f, "idle")
    /\ force \/ ~IsPopulated
    /\ fetch' = [fetch EXCEPT ![f] = [NoFetch EXCEPT !.at = "get",
                                          !.force = force, !.release = r]]
    /\ UNCHANGED <<dir, data, manifest, get>>

\* os.Create(p), from where f goes on to `to`.
Create(f, p, to) ==
    LET i == Opened(p) IN
    /\ dir[p] # None \/ Unused(p[1]) # {}
    /\ dir' = [dir EXCEPT ![p] = i]
    /\ data' = [data EXCEPT ![i] = <<>>]
    /\ fetch' = [fetch EXCEPT ![f].at = to, ![f].out = i, ![f].pos = 1]
    /\ UNCHANGED <<manifest, get>>

\* downloadFile: the server has answered 200.
BeginDownload(f) == Step(f, "get") /\ Create(f, Part(Image), "copy")

\* ... one turn of its loop, or EOF.
Download(f) ==
    LET me == fetch[f] IN
    /\ Step(f, "copy")
    /\ IF me.pos <= Chunks
       THEN /\ data' = [data EXCEPT ![me.out] =
                            Written(data[me.out], me.pos, me.release)]
            /\ fetch' = [fetch EXCEPT ![f].pos = me.pos + 1]
       ELSE /\ fetch' = [fetch EXCEPT ![f].at = "publish", ![f].out = None]
            /\ UNCHANGED data
    /\ UNCHANGED <<dir, manifest, get>>

\* ... the rename.
PublishImage(f) ==
    /\ Step(f, "publish")
    /\ dir[Part(Image)] # None
    /\ dir' = Renamed(Part(Image), Final(Image))
    /\ fetch' = [fetch EXCEPT ![f].at = "open"]
    /\ UNCHANGED <<manifest, get>>
    /\ Free

\* Whatever goes wrong in downloadFile, Fetch removes the image that an
\* earlier fetch may have left; the temporary file goes only if the error was
\* one of reading or writing.
DownloadFails(f) ==
    /\ \/ Step(f, "get") /\ dir' = Removed(Final(Image))
       \/ Step(f, "copy") /\ dir' = [Removed(Final(Image)) EXCEPT ![Part(Image)] = None]
       \/ Step(f, "publish") /\ dir' = Removed(Final(Image))
    /\ fetch' = [fetch EXCEPT ![f] = NoFetch]
    /\ UNCHANGED <<manifest, get>>
    /\ Free

\* os.Open and iso9660.OpenImage, which finds no volume descriptor in an
\* image whose first chunk is missing.
OpenImage(f) ==
    LET i == dir[Final(Image)] IN
    /\ Step(f, "open")
    /\ i # None
    /\ data[i] # <<>> /\ data[i][1] # Hole
    /\ fetch' = [fetch EXCEPT ![f].at = "create", ![f].img = i]
    /\ UNCHANGED <<dir, data, manifest, get>>

\* Mutant of BeginExtract: the asset is written where it is served from.
BeginExtractInPlace(f) ==
    Step(f, "create") /\ Create(f, Final(Order[fetch[f].n]), "extract")

\* extractFile for the asset whose turn it is.
BeginExtract(f) ==
    Step(f, "create") /\ Create(f, Part(Order[fetch[f].n]), "extract")

\* ... one turn of io.Copy; at the end of the image it stops without an error.
Extract(f) ==
    LET me == fetch[f]
        img == data[me.img]
    IN  /\ Step(f, "extract")
        /\ IF me.pos <= Len(img)
           THEN /\ data' = [data EXCEPT ![me.out] =
                                Written(data[me.out], me.pos, img[me.pos])]
                /\ fetch' = [fetch EXCEPT ![f].pos = me.pos + 1]
           ELSE /\ fetch' = [fetch EXCEPT ![f].at = "rename", ![f].out = None]
                /\ UNCHANGED data
        /\ UNCHANGED <<dir, manifest, get>>

\* Mutant of PublishAsset: an asset that is there already is kept.
PublishMissing(f) ==
    LET a == Order[fetch[f].n] IN
    /\ Step(f, "rename")
    /\ dir[Part(a)] # None
    /\ dir' = IF dir[Final(a)] = None THEN Renamed(Part(a), Final(a))
                                     ELSE Removed(Part(a))
    /\ fetch' = [fetch EXCEPT ![f].at = "sum"]
    /\ UNCHANGED <<manifest, get>>
    /\ Free

\* ... the rename.
PublishAsset(f) ==
    LET a == Order[fetch[f].n] IN
    /\ Step(f, "rename")
    /\ dir[Part(a)] # None
    /\ dir' = Renamed(Part(a), Final(a))
    /\ fetch' = [fetch EXCEPT ![f].at = "sum"]
    /\ UNCHANGED <<manifest, get>>
    /\ Free

\* Mutant of Sum: the loop over the assets goes round once too often.
SumPastEnd(f) ==
    LET me == fetch[f]
        a == Order[me.n]
    IN  /\ Step(f, "sum")
        /\ dir[Final(a)] # None
        /\ fetch' = [fetch EXCEPT ![f].files[a] = data[dir[Final(a)]],
                                  ![f].n = @ + 1, ![f].at = "create"]
        /\ UNCHANGED <<dir, data, manifest, get>>

\* ... and SHA256File, which reads the file under its final name.
Sum(f) ==
    LET me == fetch[f]
        a == Order[me.n]
        last == me.n = Len(Order)
    IN  /\ Step(f, "sum")
        /\ dir[Final(a)] # None
        /\ fetch' = [fetch EXCEPT
                        ![f].files[a] = data[dir[Final(a)]],
                        ![f].n = IF last THEN @ ELSE @ + 1,
                        ![f].at = IF last THEN "clean" ELSE "create",
                        ![f].img = IF last THEN None ELSE @]
        /\ UNCHANGED <<dir, data, manifest, get>>

\* Fetch gives up while it extracts: the temporary file goes only if the
\* error was one of copying, and the image stays.
ExtractFails(f) ==
    /\ \/ fetch[f].at \in {"open", "create", "rename", "sum"} /\ UNCHANGED dir
       \/ Step(f, "extract") /\ dir' = Removed(Part(Order[fetch[f].n]))
    /\ fetch' = [fetch EXCEPT ![f] = NoFetch]
    /\ UNCHANGED <<manifest, get>>
    /\ Free

\* The image is deleted; that it cannot be is only a warning.
RemoveImage(f) ==
    /\ Step(f, "clean")
    /\ dir' \in {Removed(Final(Image)), dir}
    /\ fetch' = [fetch EXCEPT ![f].at = "manifest"]
    /\ UNCHANGED <<manifest, get>>
    /\ Free

\* WriteManifest, or its failure.  (Its temporary file is written at once.)
WriteManifest(f) ==
    /\ Step(f, "manifest")
    /\ manifest' = fetch[f].files
    /\ fetch' = [fetch EXCEPT ![f] = NoFetch]
    /\ UNCHANGED <<dir, data, get>>

ManifestFails(f) ==
    /\ Step(f, "manifest")
    /\ fetch' = [fetch EXCEPT ![f] = NoFetch]
    /\ UNCHANGED <<dir, data, manifest, get>>

\* The process is killed, or the machine goes down.
Die(f) ==
    /\ fetch[f] # NoFetch
    /\ fetch' = [fetch EXCEPT ![f] = NoFetch]
    /\ UNCHANGED <<dir, manifest, get>>
    /\ Free

-----------------------------------------------------------------------------
(* GET /assets/{target}/{file}                                              *)

\* handleAsset opens the file, announces its size and sends a first chunk.
OpenAsset(c, a) ==
    /\ get[c] = NoGet
    /\ dir[Final(a)] # None
    /\ get' = [get EXCEPT ![c] =
                  [asset |-> a, fd |-> dir[Final(a)], size |-> Len(ContentAt(a)),
                   got |-> SubSeq(ContentAt(a), 1, 1)]]
    /\ UNCHANGED <<dir, data, manifest, fetch>>

\* http.ServeContent sends the rest of the file it has open.
SendRest(c) ==
    LET g == get[c] IN
    /\ g.fd # None
    /\ Len(data[g.fd]) >= g.size
    /\ get' = [get EXCEPT ![c].got = @ \o SubSeq(data[g.fd], 2, g.size),
                          ![c].fd = None]
    /\ UNCHANGED <<dir, manifest, fetch>>
    /\ Free

\* The handler returns: the transfer is complete, or one side has dropped it.
Close(c) ==
    /\ get[c] # NoGet
    /\ get' = [get EXCEPT ![c] = NoGet]
    /\ UNCHANGED <<dir, manifest, fetch>>
    /\ Free

-----------------------------------------------------------------------------
Next ==
    \/ \E f \in Fetcher :
        \/ \E force \in BOOLEAN, r \in Release : Start(f, force, r)
        \/ BeginDownload(f) \/ Download(f) \/ PublishImage(f)
        \/ DownloadFails(f)
        \/ OpenImage(f) \/ BeginExtract(f) \/ Extract(f) \/ PublishAsset(f)
        \/ Sum(f) \/ ExtractFails(f)
        \/ RemoveImage(f) \/ WriteManifest(f) \/ ManifestFails(f)
        \/ Die(f)
    \/ \E c \in Client :
        \/ \E a \in Wanted : OpenAsset(c, a)
        \/ SendRest(c) \/ Close(c)

Spec == Init /\ [][Next]_vars

-----------------------------------------------------------------------------
(* Properties                                                               *)

\* A file as upstream published it.
FileOf(r) == [i \in 1..Chunks |-> r]
Whole(c) == \E r \in Release : c = FileOf(r)

\* Whenever a fetch dies or fails, a file under an asset's name is a complete
\* one (fetch.go:171 "a crash mid-extract doesn't leave a half-written file"),
\* and a machine that has received as many bytes as it was promised has one
\* release's file, even if a fetch has replaced the file meanwhile.
AssetsAreWhole ==
    /\ \A a \in Asset : dir[Final(a)] # None => Whole(ContentAt(a))
    /\ \A c \in Client : (get[c] # NoGet /\ get[c].fd = None) => Whole(get[c].got)

\* A fetch that succeeds leaves the files of the release it has downloaded,
\* and a manifest that says so, whatever earlier fetches left behind.
SuccessIsItsRelease ==
    [][manifest' # manifest =>
        \E f \in Fetcher : \A a \in Asset :
            /\ manifest'[a] = FileOf(fetch[f].release)
            /\ ContentAt(a)' = FileOf(fetch[f].release)]_vars

=============================================================================
