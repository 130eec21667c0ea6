-------------------------------- MODULE FileSync --------------------------------
(***************************************************************************)
(* What the sy_* service synchronises: a client's directory and the        *)
(* repository of the file server.  sy_status compares them through the     *)
(* metadata server; sy_upload and sy_download then send the files that     *)
(* differ over an ordered, reliable data channel, packet by packet.        *)
(*                                                                         *)
(* A file is the sequence of the pieces fgets reads, all of one length;    *)
(* what is left of a BinaryPiece, which starts with a NUL, is empty.       *)
(* Writes reach a file at fclose: files are shorter than a stdio buffer.   *)
(***************************************************************************)
EXTENDS Naturals, Sequences, FiniteSets, SequencesExt

CONSTANTS
    Client,
    Name,       \* file names
    Piece,      \* what one fgets can read
    MaxPieces,  \* bound: pieces of a file
    BinaryPiece, CutPiece, \* a piece with a NUL in it, and what precedes the NUL
    Absent,
    Overlap,    \* TRUE: an upload may overlap with what other clients do
    SamePath    \* TRUE: the program's local_repo_path is LOCAL_REPO_PATH

ASSUME NameIsFinite == IsFiniteSet(Name)
ASSUME MaxPiecesIsNat == MaxPieces \in Nat
ASSUME SwitchesAreBool == Overlap \in BOOLEAN /\ SamePath \in BOOLEAN

File == UNION {[1 .. n -> Piece \cup {CutPiece}] : n \in 0 .. MaxPieces}
ASSUME AbsentIsNoFile == Absent \notin File
ASSUME AbsentIsNoName == Absent \notin Name
ASSUME AbsentIsNoSum == Absent \notin Nat

Directory == [Name -> File \cup {Absent}]
Dirty == {"FILE_CLEAN", "FILE_CLIENT_LACK", "FILE_FS_LACK", "FILE_DIRTY"}

VARIABLES
    local,  \* the clients' directories
    repo,   \* the file server's directory of the repository
    files,  \* the session's files: the client's checksums, then both sides'
    diff,   \* the session's diff, which sy_status also returns
    kind,   \* the transfer a client is in: "upload" or "download"
    pc,     \* per client: "idle", "asked", "known" or "moving"
    todo,   \* the entries of diff the sending loop has not come to
    channel,\* the packets on their way over the data channel
    pFILE   \* the static pFILE of the file server and of each client process

status == <<files, diff>>
transfer == <<kind, todo, channel>>
vars == <<local, repo, status, pc, transfer, pFILE>>

FileServer == "file server"
Closed == [name |-> Absent, written |-> <<>>]

InitialFile == UNION {[1 .. n -> Piece] : n \in 0 .. MaxPieces}

Init ==
    /\ local \in [Client -> [Name -> InitialFile \cup {Absent}]]
    /\ repo \in [Name -> InitialFile \cup {Absent}]
    /\ files = [c \in Client |-> <<>>]
    /\ diff = [c \in Client |-> <<>>]
    /\ kind = [c \in Client |-> "upload"]
    /\ pc = [c \in Client |-> "idle"]
    /\ todo = [c \in Client |-> <<>>]
    /\ channel = [c \in Client |-> <<>>]
    /\ pFILE = [p \in Client \cup {FileServer} |-> Closed]

-----------------------------------------------------------------------------
(***************************************************************************)
(* sy_status                                                               *)
(***************************************************************************)

\* The buffer is cleared between fread and MD5_Update: the sum is that of as
\* many zeros as the file has bytes.  It stands for their number, which is 0
\* when the file cannot be opened.
gen_md5(f) == IF f = Absent THEN 0 ELSE Cardinality({k \in DOMAIN f : f[k] # CutPiece})

\* The sums that are taken in directory d when the names listed are read
\* from some directory, and Absent for the other names.
Checksums(d, listed) == [n \in Name |-> IF n \in listed THEN gen_md5(d[n]) ELSE Absent]
Present(d) == {n \in Name : d[n] # Absent}

\* The orders in which readdir may list the files with a sum.
Listings(sums) == SetToSeqs({n \in Name : sums[n] # Absent})

ClientChecksums(sums, names) ==
    [k \in DOMAIN names |-> [filename |-> names[k], client_checksum |-> sums[names[k]]]]
FsChecksums(sums, names) ==
    [k \in DOMAIN names |-> [filename |-> names[k], fs_checksum |-> sums[names[k]]]]

Entry(n, f, c) == [filename |-> n, fs_checksum |-> f, client_checksum |-> c]

\* Mutant: only files of the file server are in the result.
JoinOne_Left(acc, b) ==
    [k \in DOMAIN acc |-> IF acc[k].filename = b.filename
                          THEN [acc[k] EXCEPT !.client_checksum = b.client_checksum]
                          ELSE acc[k]]

\* One round of the loop of join_checksum_arrays over B.
JoinOne(acc, b) ==
    IF \E k \in DOMAIN acc : acc[k].filename = b.filename
    THEN [k \in DOMAIN acc |-> IF acc[k].filename = b.filename
                               THEN [acc[k] EXCEPT !.client_checksum = b.client_checksum]
                               ELSE acc[k]]
    ELSE Append(acc, Entry(b.filename, Absent, b.client_checksum))

join_checksum_arrays(A, B) ==
    FoldLeft(JoinOne,
             [k \in DOMAIN A |-> Entry(A[k].filename, A[k].fs_checksum, Absent)], B)

Compare(e) ==
    IF e.client_checksum = e.fs_checksum THEN "FILE_CLEAN"
    ELSE IF e.client_checksum = Absent THEN "FILE_CLIENT_LACK"
    ELSE IF e.fs_checksum = Absent THEN "FILE_FS_LACK"
    ELSE "FILE_DIRTY"

\* A client's upload goes on until its process ends.
NoUpload == \A d \in Client : pc[d] = "moving" => kind[d] = "download"

Status(c) ==
    /\ pc[c] \in {"idle", "known"}
    /\ Overlap \/ NoUpload
    /\ \E listed \in IF SamePath THEN {Present(local[c])} ELSE SUBSET Name :
          LET sums == Checksums(local[c], listed) IN
          \E names \in Listings(sums) :
             files' = [files EXCEPT ![c] = ClientChecksums(sums, names)]
    /\ pc' = [pc EXCEPT ![c] = "asked"]
    /\ UNCHANGED <<local, repo, diff, transfer, pFILE>>

\* The file server's SY_STATUS and the metadata server's FS_STATUS_OK.
FsStatus(c) ==
    /\ pc[c] = "asked"
    /\ LET sums == Checksums(repo, Present(repo)) IN
       \E names \in Listings(sums) :
          LET joined == join_checksum_arrays(FsChecksums(sums, names), files[c]) IN
          /\ files' = [files EXCEPT ![c] = joined]
          /\ diff' = [diff EXCEPT ![c] = [k \in DOMAIN joined |->
                     [filename |-> joined[k].filename, dirty |-> Compare(joined[k])]]]
    /\ pc' = [pc EXCEPT ![c] = "known"]
    /\ UNCHANGED <<local, repo, transfer, pFILE>>

-----------------------------------------------------------------------------
(***************************************************************************)
(* sy_upload and sy_download                                               *)
(***************************************************************************)
Source(c) == IF kind[c] = "upload" THEN local[c] ELSE repo
Target(c) == IF kind[c] = "upload" THEN repo ELSE local[c]
Receiver(c) == IF kind[c] = "upload" THEN FileServer ELSE c

\* What the loops go through of files_diff: its num is a uint8_t.
Counted(entries) == SubSeq(entries, 1, Len(entries) % 256)

Start(c, k) ==
    /\ pc[c] = "known"
    /\ \/ Overlap
       \/ k = "download" /\ NoUpload
       \/ k = "upload" /\ \A d \in Client \ {c} : pc[d] = "idle"
    /\ pc' = [pc EXCEPT ![c] = "moving"]
    /\ kind' = [kind EXCEPT ![c] = k]
    /\ todo' = [todo EXCEPT ![c] = Counted(diff[c])]
    /\ UNCHANGED <<local, repo, status, channel, pFILE>>

\* Mutant: a file that differs is sent only if the receiver lacks it.
Sent_Lacking(k) == IF k = "upload" THEN {"FILE_FS_LACK"} ELSE {"FILE_CLIENT_LACK"}

Sent(k) == IF k = "upload" THEN {"FILE_FS_LACK", "FILE_DIRTY"}
           ELSE {"FILE_CLIENT_LACK", "FILE_DIRTY"}

\* buf_len is strlen(buf).
Packed(p) == IF p = BinaryPiece THEN CutPiece ELSE p

\* The packets 0, 1 .. n and -1 of a file.
Packets(n, f) ==
    <<[index |-> "first", buf |-> n]>>
    \o [k \in DOMAIN f |-> [index |-> "next", buf |-> Packed(f[k])]]
    \o <<[index |-> "last", buf |-> Absent]>>

\* One round of the loop of uv_client_upload or uv_fs_download.
SendFile(c) ==
    /\ pc[c] = "moving" /\ todo[c] # <<>>
    /\ todo' = [todo EXCEPT ![c] = Tail(@)]
    /\ LET e == Head(todo[c])
           f == Source(c)[e.filename] IN
       channel' = IF e.dirty \in Sent(kind[c]) /\ f # Absent
                  THEN [channel EXCEPT ![c] = @ \o Packets(e.filename, f)]
                  ELSE channel
    /\ UNCHANGED <<local, repo, status, pc, kind, pFILE>>

Write(c, n, f) ==
    IF kind[c] = "upload"
    THEN /\ repo' = [repo EXCEPT ![n] = f]
         /\ UNCHANGED local
    ELSE /\ local' = [local EXCEPT ![c][n] = f]
         /\ UNCHANGED repo

\* Mutant: a first packet does not replace what pFILE is still open on.
OnMessage_Open(c) ==
    LET p == Head(channel[c])
        r == Receiver(c) IN
    /\ channel[c] # <<>>
    /\ channel' = [channel EXCEPT ![c] = Tail(@)]
    /\ \/ /\ p.index = "first"
          /\ pFILE' = [pFILE EXCEPT ![r].name = IF @ = Absent THEN p.buf ELSE @]
          /\ UNCHANGED <<local, repo>>
       \/ /\ p.index = "next"
          /\ pFILE' = [pFILE EXCEPT ![r].written = Append(@, p.buf)]
          /\ UNCHANGED <<local, repo>>
       \/ /\ p.index = "last"
          /\ Write(c, pFILE[r].name, pFILE[r].written)
          /\ pFILE' = [pFILE EXCEPT ![r] = Closed]
    /\ UNCHANGED <<status, pc, kind, todo>>

\* upload_fs_on_message or download_client_on_message.  A packet that finds
\* pFILE closed is taken to change nothing.
OnMessage(c) ==
    LET p == Head(channel[c])
        r == Receiver(c) IN
    /\ channel[c] # <<>>
    /\ channel' = [channel EXCEPT ![c] = Tail(@)]
    /\ \/ /\ p.index = "first"
          /\ Write(c, p.buf, <<>>)
          /\ pFILE' = [pFILE EXCEPT ![r] = [name |-> p.buf, written |-> <<>>]]
       \/ /\ p.index = "next" /\ pFILE[r] # Closed
          /\ pFILE' = [pFILE EXCEPT ![r].written = Append(@, p.buf)]
          /\ UNCHANGED <<local, repo>>
       \/ /\ p.index = "last" /\ pFILE[r] # Closed
          /\ Write(c, pFILE[r].name, pFILE[r].written)
          /\ pFILE' = [pFILE EXCEPT ![r] = Closed]
       \/ /\ p.index # "first" /\ pFILE[r] = Closed
          /\ UNCHANGED <<local, repo, pFILE>>
    /\ UNCHANGED <<status, pc, kind, todo>>

\* The user ends the client process, when all is transferred or before;
\* what is on its way is lost.
Quit(c) ==
    /\ pc[c] = "moving"
    /\ pc' = [pc EXCEPT ![c] = "idle"]
    /\ todo' = [todo EXCEPT ![c] = <<>>]
    /\ channel' = [channel EXCEPT ![c] = <<>>]
    /\ pFILE' = [pFILE EXCEPT ![c] = Closed]
    /\ files' = [files EXCEPT ![c] = <<>>]
    /\ diff' = [diff EXCEPT ![c] = <<>>]
    /\ UNCHANGED <<local, repo, kind>>

Next ==
    \E c \in Client :
        \/ Status(c) \/ FsStatus(c)
        \/ Start(c, "upload") \/ Start(c, "download")
        \/ SendFile(c) \/ OnMessage(c) \/ Quit(c)

Spec == Init /\ [][Next]_vars

-----------------------------------------------------------------------------
(***************************************************************************)
(* Properties                                                              *)
(***************************************************************************)

\* Every variable has its type.
TypeOK ==
    /\ local \in [Client -> Directory]
    /\ repo \in Directory
    /\ \A c \in Client :
          /\ \A e \in ToSet(files[c]) :
                e.filename \in Name /\ e.client_checksum \in Nat \cup {Absent}
          /\ \A e \in ToSet(diff[c]) \cup ToSet(todo[c]) :
                e.filename \in Name /\ e.dirty \in Dirty
          /\ \A p \in ToSet(channel[c]) : p.index \in {"first", "next", "last"}
    /\ kind \in [Client -> {"upload", "download"}]
    /\ pc \in [Client -> {"idle", "asked", "known", "moving"}]
    /\ \A p \in DOMAIN pFILE :
          pFILE[p].name \in Name \cup {Absent} /\ pFILE[p].written \in File

\* The class of a file by what is known of it on the two sides.
Reference(onClient, onServer) ==
    CASE onClient = onServer -> "FILE_CLEAN"
      [] onClient = Absent /\ onServer # Absent -> "FILE_CLIENT_LACK"
      [] onServer = Absent /\ onClient # Absent -> "FILE_FS_LACK"
      [] OTHER -> "FILE_DIRTY"

\* What sy_status sees of a file: if it is there, and how long it is.
SumOf(f) == IF f = Absent THEN Absent ELSE gen_md5(f)

\* In whatever order the two directories are listed, the diff that
\* sy_status returns names every file either side has exactly once, with
\* its class: join_checksum_arrays is an outer join.  Two files of one
\* length are FILE_CLEAN, whatever is in them.
DiffIsRight ==
    [][\A c \in Client : pc[c] = "asked" /\ pc'[c] = "known" =>
          /\ {<<e.filename, e.dirty>> : e \in ToSet(diff'[c])} =
                {<<n, Reference(SumOf(local[c][n]), SumOf(repo[n]))>> :
                     n \in Present(local[c]) \cup Present(repo)}
          /\ IsInjective([k \in DOMAIN diff'[c] |-> diff'[c][k].filename])]_vars

Done(c) == pc[c] = "moving" /\ todo[c] = <<>> /\ channel[c] = <<>>

\* The diff took file n of the two directories for the same.
Spared(entries, n) == [filename |-> n, dirty |-> "FILE_CLEAN"] \in ToSet(entries)

\* When a transfer of at most 255 entries is done, its receiver has every
\* file of its sender, and has it as it is there unless it had one of the
\* same length before: the packets of the files that were sent were written
\* where they belong, after whatever an earlier transfer that broke off has
\* left behind, and only files of one length on both sides were spared.
Transferred ==
    \A c \in Client : Done(c) /\ Len(diff[c]) < 256 =>
        \A n \in Name : Source(c)[n] # Absent =>
            \/ Target(c)[n] = Source(c)[n]
            \/ Spared(diff[c], n) /\ SumOf(Target(c)[n]) = SumOf(Source(c)[n])

================================================================================
