------------------------------- MODULE Drive -------------------------------
(***************************************************************************)
(* The drive of one user: the requests /upload-file, /create-folder,       *)
(* /delete-file, /move-file, /rename-file, /files-list and /download of    *)
(* the HTTP server (frontend/src/http.cc, frontend/src/stringutils.cc)     *)
(* over the row of the user in the table.                                  *)
(*                                                                         *)
(* The cell of a folder holds the paths of its entries, separated by       *)
(* commas; the cell of a file holds its data.  A request is a sequence of  *)
(* table commands, one step each, and the requests of two browser windows  *)
(* interleave between them.  A write may be refused: the storage servers   *)
(* answer -ERR for an aborted transaction.                                 *)
(*                                                                         *)
(* A path is the sequence of its names, <<>> being "/".  No name is a      *)
(* prefix of another: find() then takes an entry for another one only when *)
(* the path occurs inside a longer path.                                   *)
(***************************************************************************)
EXTENDS Integers, Sequences, FiniteSets, SequencesExt

CONSTANTS
    File, Dir,      \* names of files and of folders
    Request,        \* requests
    Old,            \* data of the files that are there at the start
    Start,          \* the drives the requests may find
    Up, Blank, Err, \* texts in a listing: "../", "", "-ERR 204 ..."
    MaxDepth        \* bound: names in the path a request is about

Name    == File \cup Dir
Path    == UNION {[1..n -> Name] : n \in 0..(MaxDepth + 1)}
Content == Old \cup Request              \* a request uploads its own data
Text    == Path \cup {Up, Blank, Err}
Value   == Seq(Text \cup Content)        \* a value, split at its commas

IsFolder(p) == p = <<>> \/ Last(p) \in Dir
Parent(p)   == Front(p)
IsEntry(t)  == t \in Path /\ t # <<>>
IsFile(t)   == IsEntry(t) /\ ~IsFolder(t)

(* A drive as uploads and new folders leave it: a listing names what is in *)
(* the folder, once, and starts from "../" except for "/".                 *)
IsDrive(d) ==
    /\ \A p \in DOMAIN d : p \in Path /\ (IsFolder(p) \/ \E c \in Old : d[p] = <<c>>)
    /\ \A p \in DOMAIN d \ {<<>>} : Parent(p) \in DOMAIN d /\ p \in ToSet(d[Parent(p)])
    /\ \A p \in DOMAIN d : IsFolder(p) =>
         /\ d[p] \in Seq(Path \cup {Up}) \ {<<>>} /\ IsInjective(d[p])
         /\ ToSet(d[p]) = {x \in DOMAIN d : x # <<>> /\ Parent(x) = p}
                            \cup (IF p = <<>> THEN {} ELSE {Up})

ASSUME DriveAssumption ==
    /\ File \cap Dir = {} /\ Old \cap Request = {} /\ MaxDepth \in Nat
    /\ Path \cap Content = {} /\ {Up, Blank, Err} \cap (Path \cup Content) = {}
    /\ Up # Blank /\ Up # Err /\ Blank # Err
    /\ \A d \in Start : IsDrive(d)

VARIABLES
    cells,      \* the row of the user: path -> value
    up,         \* is the HTTP server running?
    r,          \* the requests: what they are about, and their local variables
    kept,       \* history: data uploaded and answered 200, not deleted since
    spoiled     \* history: what befell the drive

vars == <<cells, up, r, kept, spoiled>>

Idle == [op |-> "none", pc |-> "none", src |-> <<>>, dst |-> <<>>, seen |-> <<>>, fids |-> <<>>,
         data |-> <<>>, left |-> <<>>, kid |-> <<>>, ans |-> "none"]

Op     == {"upload", "mkdir", "delete", "move", "rename", "list", "download"}
Window == {"raced", "refused", "ended", "overlapped", "clobbered", "conflict", "emptied", "nested",
           "stale", "gone"}

Asked  == {p \in Path : Len(p) <= MaxDepth}
Local  == [op : Op \cup {"none"}, src : Asked, dst : Asked,
           pc : {"none", "own", "put", "to", "putto", "fetch", "kid", "kiddrop", "kidput", "drop",
                 "store", "done", "thrown"},
           seen : Value, fids : Value, data : Value, left : Value, kid : Value,
           ans : {"none", "200", "404", "409", "500"}]

TypeOK ==
    /\ DOMAIN cells \subseteq Path /\ \A p \in DOMAIN cells : cells[p] \in Value
    /\ up \in BOOLEAN
    /\ r \in [Request -> Local]
    /\ \A q \in Request :
         /\ r[q].pc \in {"kid", "kiddrop", "kidput"} => r[q].left # <<>> /\ IsFile(Head(r[q].left))
         /\ r[q].pc = "done" <=> r[q].ans # "none"
    /\ kept \subseteq Content /\ spoiled \subseteq Window

Init ==
    /\ cells \in Start /\ up = TRUE
    /\ r = [q \in Request |-> Idle]
    /\ kept = {c \in Old : \E p \in DOMAIN cells : cells[p] = <<c>>}
    /\ spoiled = {}

-----------------------------------------------------------------------------
(* The table.                                                              *)
Get(p)    == IF p \in DOMAIN cells THEN cells[p] ELSE <<Err>>
Put(p, v) == [x \in DOMAIN cells \cup {p} |-> IF x = p THEN v ELSE cells[x]]
Drop(p)   == [x \in DOMAIN cells \ {p} |-> cells[x]]

(* A listing: find, erase with the comma, and append.  The comma before    *)
(* the text goes with it, or the one behind it for the first entry.        *)
Occurs(p, t)  == t \in Path /\ \E i \in 0..(Len(t) - Len(p)) : SubSeq(t, i + 1, i + Len(p)) = p
Finds(v, p)   == \E i \in DOMAIN v : Occurs(p, v[i])
Place(v, p)   == Min({i \in DOMAIN v : Occurs(p, v[i])})

ErasedRest(v, p) == SubSeq(v, 1, Place(v, p) - 1)  \* seeded fault: erase without a length

Erased(v, p)  == IF v[Place(v, p)] # p THEN [v EXCEPT ![Place(v, p)] = Blank]
                 ELSE IF Len(v) = 1 THEN <<Blank>> ELSE RemoveAt(v, Place(v, p))
Renamed(v, p, n) == [v EXCEPT ![Place(v, p)] = IF @ = p THEN n ELSE Blank]

-----------------------------------------------------------------------------
Running(q) == r[q].pc \notin {"none", "done", "thrown"}
Changes(q) == r[q].op \in Op \ {"list", "download"}
At(q, pc)  == up /\ r[q].pc = pc
Go(q, pc)  == [r[q] EXCEPT !.pc = pc]
Set(q, x)  == r' = [r EXCEPT ![q] = x]

Reply(q, a) == [r[q] EXCEPT !.pc = "done", !.ans = a, !.seen = <<>>, !.fids = <<>>,
                            !.data = <<>>, !.left = <<>>, !.kid = <<>>]

(* Two requests are about one entry, or one is about a folder the other    *)
(* one is in.                                                              *)
Related(p, x) == IsPrefix(p, x) \/ IsPrefix(x, p)
Meets(q, src, dst) ==
    \E o \in Request \ {q} : Running(o) /\ Changes(o)
      /\ \E p \in {src, dst}, x \in {r[o].src, r[o].dst} : Related(p, x)

(* The page acts on what loadFiles last showed, and deleteFolder and       *)
(* moveFile on a /files-list they sent before.  The drive may have changed *)
(* since, at the hands of another window or of one closed long ago: a page *)
(* may name any folder and any entry.  now says that what the page goes by *)
(* is still so; a change it sends otherwise is stale.                      *)
Begin(q, op, src, dst, now) ==
    /\ up /\ r[q].pc = "none"
    /\ Set(q, [Idle EXCEPT !.op = op, !.pc = "own", !.src = src, !.dst = dst])
    /\ spoiled' = spoiled \cup (IF Meets(q, src, dst) THEN {"overlapped"} ELSE {})
                         \cup (IF now THEN {} ELSE {"stale"})
    /\ UNCHANGED <<cells, up, kept>>

FolderPath == {p \in Asked : Len(p) < MaxDepth /\ ToSet(p) \subseteq Dir}
Here(d)  == d = <<>> \/ d \in DOMAIN cells
Shown(p) == \E x \in ToSet(Get(Parent(p))) : IsEntry(x) /\ p = Parent(p) \o <<Last(x)>>
OfKind(n) == IF n \in Dir THEN Dir ELSE File

(* The folder itself is shown, or a new user's drive.                      *)
Upload(q, d)       == \E n \in File : Begin(q, "upload", d \o <<n>>, d \o <<n>>, Here(d))
CreateFolder(q, d) == \E n \in Dir : Begin(q, "mkdir", d \o <<n>>, d \o <<n>>, Here(d))

DeleteFile(q, p) == Begin(q, "delete", p, p, Here(Parent(p)) /\ Shown(p))

(* The entries of the folder have been deleted before it, those its        *)
(* /files-list showed; what they were answered does not matter.            *)
DeleteFolder(q, p) ==
    Begin(q, "delete", p, p, Here(Parent(p)) /\ Shown(p) /\ ToSet(Get(p)) \subseteq {Up})

(* A rename keeps the kind, and a move may lead where the entry is.  The   *)
(* list of the target has been asked for and was there.                    *)
RenameFile(q, p) ==
    \E n \in OfKind(Last(p)) :
        Begin(q, "rename", p, Parent(p) \o <<n>>, Here(Parent(p)) /\ Shown(p))

MoveFile(q, p) ==
    \E t \in FolderPath :
        Begin(q, "move", p, t \o <<Last(p)>>, Here(Parent(p)) /\ Shown(p) /\ Here(t))

(* In a drive that is damaged already, a folder with a nameless entry is   *)
(* not renamed or moved again: back() of an empty text is undefined.       *)
Whole(p) == IsFolder(p) => Blank \notin ToSet(Get(p))

Send(q) ==
    \E d \in FolderPath :
      \/ Upload(q, d) \/ CreateFolder(q, d)
      \/ \E n \in Name : LET p == d \o <<n>> IN
           \/ n \in File /\ (DeleteFile(q, p) \/ Begin(q, "download", p, p, TRUE))
           \/ n \in Dir /\ DeleteFolder(q, p)
           \/ Whole(p) /\ (RenameFile(q, p) \/ MoveFile(q, p))
      \/ Begin(q, "list", d, d, TRUE)

-----------------------------------------------------------------------------
(* The first GET is of the listing of the folder.                          *)
Folder(q) == Parent(r[q].src)

Found(q, v) == [r[q] EXCEPT !.pc = "put", !.seen = Get(Folder(q)), !.fids = v]

ReadToAdd(q) ==
    LET v == Get(Folder(q)) IN
    /\ At(q, "own") /\ r[q].op \in {"upload", "mkdir"}
    /\ Set(q, IF v = <<Err>> THEN Found(q, <<r[q].src>>)
              ELSE IF Finds(v, r[q].src) THEN Reply(q, "409")
              ELSE Found(q, Append(v, r[q].src)))
    /\ UNCHANGED <<cells, up, kept, spoiled>>

(* erase of what is not there throws, and nothing catches it: the test for *)
(* npos comes behind the one for 0.                                        *)
ReadToErase(q) ==
    LET v == Get(Folder(q)) IN
    /\ At(q, "own") /\ r[q].op \in {"delete", "move"}
    /\ IF Finds(v, r[q].src)
         THEN Set(q, Found(q, Erased(v, r[q].src))) /\ UNCHANGED <<up, spoiled>>
         ELSE /\ Set(q, Go(q, "thrown")) /\ up' = FALSE
              /\ spoiled' = IF \E o \in Request \ {q} : Running(o) /\ Changes(o)
                              THEN spoiled \cup {"ended"} ELSE spoiled
    /\ UNCHANGED <<cells, kept>>

NameFree(v, q) == FALSE                  \* seeded fault: the new name is not looked for

NameTaken(v, q) == Finds(v, r[q].dst)

ReadToRename(q) ==
    LET v == Get(Folder(q)) IN
    /\ At(q, "own") /\ r[q].op = "rename"
    /\ Set(q, IF NameTaken(v, q) THEN Reply(q, "409")
              ELSE IF ~Finds(v, r[q].src) THEN Reply(q, "404")
              ELSE Found(q, Renamed(v, r[q].src, r[q].dst)))
    /\ UNCHANGED <<cells, up, kept, spoiled>>

(* The listing is written back; /delete-file deletes an empty one.  The    *)
(* answer is not looked at.                                                *)
After(op) == CASE op \in {"upload", "mkdir"} -> "store" [] op = "delete" -> "drop"
               [] op = "move" -> "to" [] op = "rename" -> "fetch"

Raced(p, q) == IF Get(p) = r[q].seen THEN {} ELSE {"raced"}

WriteFolder(q) ==
    LET v == r[q].fids IN
    /\ At(q, "put") /\ Set(q, Go(q, After(r[q].op)))
    /\ \/ /\ cells' = IF r[q].op = "delete" /\ v = <<Blank>> THEN Drop(Folder(q))
                      ELSE Put(Folder(q), v)
          /\ spoiled' = spoiled \cup Raced(Folder(q), q)
       \/ UNCHANGED cells /\ spoiled' = spoiled \cup {"refused"}
    /\ UNCHANGED <<up, kept>>

(* /move-file then looks for the old path in the listing of the target; a  *)
(* target that has gone lends its error text to the listing.               *)
Target(q) == Parent(r[q].dst)

ReadTarget(q) ==
    LET v == Get(Target(q)) IN
    /\ At(q, "to")
    /\ IF Finds(v, r[q].src)
         THEN Set(q, Reply(q, "409")) /\ spoiled' = spoiled \cup {"conflict"}
         ELSE /\ Set(q, [Go(q, "putto") EXCEPT !.seen = v, !.fids = Append(v, r[q].dst)])
              /\ spoiled' = IF v = <<Err>> THEN spoiled \cup {"gone"} ELSE spoiled
    /\ UNCHANGED <<cells, up, kept>>

WriteTarget(q) ==
    /\ At(q, "putto") /\ Set(q, Go(q, "fetch"))
    /\ \/ /\ cells' = Put(Target(q), r[q].fids)
          /\ spoiled' = spoiled \cup Raced(Target(q), q)
               \cup (IF r[q].dst \in ToSet(r[q].seen) THEN {"clobbered"} ELSE {})
       \/ UNCHANGED cells /\ spoiled' = spoiled \cup {"refused"}
    /\ UNCHANGED <<up, kept>>

-----------------------------------------------------------------------------
(* The data is read.  For a folder every file of its listing is read,      *)
(* deleted and written again: renameFolder under its name in the new       *)
(* folder, renameMovedFolder under the path of the new folder itself.      *)
(* Folders in the folder lose their place in the new listing.  The loop    *)
(* has before it the listing from its next file on.  The error text of a   *)
(* listing that is gone, which the code takes for a file name, is passed   *)
(* over: the drive is damaged before it can get here.                      *)
KidPath(q, k) == IF r[q].op = "rename" THEN r[q].dst \o <<Last(k)>> ELSE r[q].dst

KidsNone(q, v) == <<>>                   \* seeded fault: the files are left where they are
KidsAll(q, v)  == v                      \* seeded fault: "../" and folders are not left out

Kids(q, v)   == LET files == {i \in DOMAIN v : IsFile(v[i])} IN
                IF files = {} THEN <<>> ELSE SubSeq(v, Min(files), Len(v))
NewListing(q, v) == [i \in DOMAIN v |-> CASE v[i] = Up -> Up [] IsFile(v[i]) -> KidPath(q, v[i])
                                          [] OTHER -> Blank]

ReadData(q) ==
    LET v == Get(r[q].src)
        folder == IsFolder(r[q].src)
        kids == IF folder THEN Kids(q, v) ELSE <<>>
    IN /\ At(q, "fetch")
       /\ Set(q, [Go(q, IF kids = <<>> THEN "drop" ELSE "kid") EXCEPT
                    !.data = IF folder /\ r[q].op = "rename" THEN NewListing(q, v) ELSE v,
                    !.left = kids])
       /\ spoiled' = spoiled
            \cup (IF folder /\ r[q].op = "move" /\ kids # <<>> THEN {"emptied"} ELSE {})
            \cup (IF folder /\ \E t \in ToSet(v) : IsEntry(t) /\ IsFolder(t) THEN {"nested"} ELSE {})
       /\ UNCHANGED <<cells, up, kept>>

ReadKid(q) ==
    /\ At(q, "kid") /\ Set(q, [Go(q, "kiddrop") EXCEPT !.kid = Get(Head(r[q].left))])
    /\ UNCHANGED <<cells, up, kept, spoiled>>

DropKid(q) ==
    /\ At(q, "kiddrop") /\ Set(q, Go(q, "kidput"))
    /\ \/ cells' = Drop(Head(r[q].left)) /\ UNCHANGED spoiled
       \/ UNCHANGED cells /\ spoiled' = spoiled \cup {"refused"}
    /\ UNCHANGED <<up, kept>>

SameKid(q) == r[q].left                  \* seeded fault: the loop does not advance

OtherKids(q) == Kids(q, Tail(r[q].left))

WriteKid(q) ==
    LET rest == OtherKids(q) IN
    /\ At(q, "kidput")
    /\ Set(q, [Go(q, IF rest = <<>> THEN "drop" ELSE "kid") EXCEPT !.left = rest, !.kid = <<>>])
    /\ \/ cells' = Put(KidPath(q, Head(r[q].left)), r[q].kid) /\ UNCHANGED spoiled
       \/ UNCHANGED cells /\ spoiled' = spoiled \cup {"refused"}
    /\ UNCHANGED <<up, kept>>

(* The old cell is deleted; /delete-file answers.                          *)
DropData(q) ==
    LET p == r[q].src  there == p \in DOMAIN cells IN
    /\ At(q, "drop")
    /\ \/ /\ there /\ cells' = Drop(p) /\ UNCHANGED spoiled
          /\ Set(q, IF r[q].op = "delete" THEN Reply(q, "200") ELSE Go(q, "store"))
       \/ /\ UNCHANGED cells
          /\ Set(q, Reply(q, IF there /\ r[q].op = "delete" THEN "404" ELSE "500"))
          /\ spoiled' = IF there THEN spoiled \cup {"refused"} ELSE spoiled
    /\ kept' = IF r[q].op = "delete" THEN {c \in kept : Get(p) # <<c>>} ELSE kept
    /\ UNCHANGED up

Stored(q) == CASE r[q].op = "upload" -> <<q>> [] r[q].op = "mkdir" -> <<Up>>
               [] OTHER -> r[q].data

StoreData(q) ==
    /\ At(q, "store")
    /\ \/ /\ cells' = Put(r[q].dst, Stored(q)) /\ Set(q, Reply(q, "200"))
          /\ kept' = IF r[q].op = "upload" THEN kept \cup {q} ELSE kept
          /\ UNCHANGED spoiled
       \/ /\ Set(q, Reply(q, "500")) /\ spoiled' = spoiled \cup {"refused"}
          /\ UNCHANGED <<cells, kept>>
    /\ UNCHANGED up

(* /files-list, and /download, which decodes what it gets: data that is no *)
(* string of bits throws.                                                  *)
List(q) ==
    /\ At(q, "own") /\ r[q].op = "list"
    /\ Set(q, Reply(q, IF Get(r[q].src) = <<Err>> THEN "404" ELSE "200"))
    /\ UNCHANGED <<cells, up, kept, spoiled>>

Download(q) ==
    LET v == Get(r[q].src) IN
    /\ At(q, "own") /\ r[q].op = "download"
    /\ IF v = <<Err>> \/ Head(v) \in Content
         THEN Set(q, Reply(q, IF v = <<Err>> THEN "404" ELSE "200")) /\ UNCHANGED <<up, spoiled>>
         ELSE /\ Set(q, Go(q, "thrown")) /\ up' = FALSE
              /\ spoiled' = IF \E o \in Request : Running(o) /\ Changes(o)
                              THEN spoiled \cup {"ended"} ELSE spoiled
    /\ UNCHANGED <<cells, kept>>

(* A table command finds no storage server: the HTTP server exits.         *)
Exit ==
    /\ up /\ up' = FALSE
    /\ spoiled' = IF \E q \in Request : Running(q) /\ Changes(q)
                    THEN spoiled \cup {"ended"} ELSE spoiled
    /\ UNCHANGED <<cells, r, kept>>

-----------------------------------------------------------------------------
Step(q) ==
    \/ ReadToAdd(q) \/ ReadToErase(q) \/ ReadToRename(q) \/ WriteFolder(q)
    \/ ReadTarget(q) \/ WriteTarget(q) \/ ReadData(q)
    \/ ReadKid(q) \/ DropKid(q) \/ WriteKid(q) \/ DropData(q) \/ StoreData(q)
    \/ List(q) \/ Download(q)

Next == Exit \/ \E q \in Request : Send(q) \/ Step(q)

Spec == Init /\ [][Next]_vars

(* The thread of a request runs; the storage servers answer.               *)
FairSpec == Spec /\ \A q \in Request : WF_vars(Step(q))

-----------------------------------------------------------------------------
(* spoiled says what may have damaged the drive: two changes of a listing  *)
(* that overlapped; a refused write; the end of the server within a        *)
(* change; two changes of one entry at a time; a move onto an entry, or    *)
(* one answered 409; a move of a folder with files; a change of a folder   *)
(* with folders in it; a change from a page the drive no longer looks      *)
(* like; a move whose target is gone.  The properties say that nothing     *)
(* else does.                                                              *)
Folders     == {p \in DOMAIN cells : IsFolder(p)} \cup {<<>>}
Entries(p)  == {t \in ToSet(Get(p)) : IsEntry(t)}
Changing(p) == \E q \in Request : Running(q) /\ Changes(q)
                                   /\ \E x \in {r[q].src, r[q].dst} : IsPrefix(x, p)

(* Every listed path has a cell and every cell is listed in its folder,    *)
(* except for the entries a running request changes (http.cc:374-426,      *)
(* 896-1150).                                                              *)
DriveAgrees ==
    spoiled = {} =>
        /\ \A p \in Folders : \A t \in Entries(p) : t \in DOMAIN cells \/ Changing(t)
        /\ \A p \in DOMAIN cells \ {<<>>} : p \in Entries(Parent(p)) \/ Changing(p)

(* The data of a file whose upload was answered 200 is in a cell, or in    *)
(* the hands of a request that is about to write it, until the file is     *)
(* deleted: no move, rename or other upload loses it.                      *)
InHand(q, c) == \/ r[q].pc = "store" /\ r[q].data = <<c>>
                \/ r[q].pc = "kidput" /\ r[q].kid = <<c>>
FileSurvives ==
    spoiled = {} => \A c \in kept : (\E p \in DOMAIN cells : cells[p] = <<c>>)
                                     \/ \E q \in Request : up /\ InHand(q, c)

(* A request ends the server (out_of_range of erase, invalid_argument of   *)
(* the decoding) only after two requests were about one entry or the drive *)
(* was damaged.                                                            *)
ThrownIsRaced ==
    (\E q \in Request : r[q].pc = "thrown") => spoiled # {}

(* Every request is answered unless the server ends.                       *)
RequestEnds == \A q \in Request : Running(q) ~> (r[q].pc = "done" \/ ~up)

(* "File name already exists in destination folder" (files.html:434): a    *)
(* move answered 409 has changed nothing, so that the file is listed where *)
(* it was.                                                                 *)
RefusedMoveKeeps ==
    spoiled \subseteq {"conflict"} =>
        \A q \in Request : (r[q].op = "move" /\ r[q].ans = "409" /\ r[q].src \in DOMAIN cells)
            => r[q].src \in Entries(Folder(q)) \/ Changing(r[q].src)
=============================================================================
