------------------------------ MODULE JsonCache ------------------------------
(***************************************************************************)
(* How several tsschecker processes share the cached firmware listing, one *)
(* file with a fixed path: getFirmwareJson (getOtaJson is the same on      *)
(* another file), downloadFile, and the retry around parseTokens in main.  *)
(* A download truncates the file and writes it in pieces; it may fail, and *)
(* the process may be killed, between any two of them. A reader asks for   *)
(* the size and then reads.                                                *)
(***************************************************************************)
EXTENDS Integers, Sequences

CONSTANTS
  Procs,   \* the processes
  Pieces   \* the pieces of a whole listing

ASSUME CacheAssumption == Pieces \in Nat \ {0}

VARIABLES
  exists,      \* the cache file is there
  file,        \* its contents: each piece "data" or, never written, "hole"
  pc,          \* pc[p]: where process p stands
  nocache,     \* nocache[p]: its global
  offset,      \* offset[p]: pieces its download has written
  size,        \* size[p]: what ftell returned
  buffer,      \* buffer[p]: what it read, "junk" where fread got nothing
  downloads,   \* history: downloads p started
  failed,      \* history: p's last download failed
  disturbed,   \* history: the file was truncated, or a download of another
               \* process was not complete, since p's last download began
  dirty        \* history: the byte after p's buffer was not zero

vars == <<exists, file, pc, nocache, offset, size, buffer, downloads, failed, disturbed, dirty>>
history == <<downloads, failed, disturbed, dirty>>

Whole == [k \in 1 .. Pieces |-> "data"]
Files == UNION {[1 .. n -> {"data", "hole"}] : n \in 0 .. Pieces}

(* An earlier run may have left any beginning of a listing in the file.    *)
Init ==
  /\ exists \in BOOLEAN
  /\ file \in IF exists THEN {SubSeq(Whole, 1, n) : n \in 0 .. Pieces} ELSE {<<>>}
  /\ pc = [p \in Procs |-> "open"]
  /\ nocache \in [Procs -> BOOLEAN]
  /\ offset = [p \in Procs |-> 0]
  /\ size = [p \in Procs |-> 0]
  /\ buffer = [p \in Procs |-> <<>>]
  /\ downloads = [p \in Procs |-> 0]
  /\ failed = [p \in Procs |-> FALSE]
  /\ disturbed = [p \in Procs |-> FALSE]
  /\ dirty = [p \in Procs |-> FALSE]

Writing(q) == pc[q] = "write"
Others(p) == Procs \ {p}

---------------------------------------------------------------------------
(* Mutations, used to test that the properties below bite.                 *)

ReparseKeepsCache(p) == UNCHANGED nocache

GiveUpAtOnce(p) == TRUE

---------------------------------------------------------------------------
(* getFirmwareJson and downloadFile                                        *)

(* if (!f || nocache)                                                      *)
MayUseCache(p) == exists /\ ~nocache[p]

OpenCached(p) ==
  /\ pc[p] = "open"
  /\ MayUseCache(p)
  /\ pc' = [pc EXCEPT ![p] = "size"]
  /\ UNCHANGED <<exists, file, nocache, offset, size, buffer, history>>

(* fopen "wb" empties the file, or creates it. When it cannot, or the file *)
(* cannot be opened again, the code follows a null FILE and the process    *)
(* ends: for the file and the others that is Kill at this place.           *)
StartDownload(p) ==
  /\ pc[p] = "open"
  /\ ~MayUseCache(p)
  /\ exists' = TRUE
  /\ file' = <<>>
  /\ pc' = [pc EXCEPT ![p] = "write"]
  /\ offset' = [offset EXCEPT ![p] = 0]
  /\ downloads' = [downloads EXCEPT ![p] = @ + 1]
  /\ failed' = [failed EXCEPT ![p] = FALSE]
  /\ disturbed' = [q \in Procs |->
                     IF q = p THEN \E r \in Others(p) : Writing(r) ELSE TRUE]
  /\ UNCHANGED <<nocache, size, buffer, dirty>>

(* One piece at the process's own offset; a gap before it reads as zeros.  *)
WritePiece(p) ==
  /\ Writing(p)
  /\ offset[p] < Pieces
  /\ file' = [k \in 1 .. (IF Len(file) > offset[p] THEN Len(file) ELSE offset[p] + 1) |->
                IF k = offset[p] + 1 THEN "data"
                ELSE IF k <= Len(file) THEN file[k] ELSE "hole"]
  /\ offset' = [offset EXCEPT ![p] = @ + 1]
  /\ UNCHANGED <<exists, pc, nocache, size, buffer, history>>

(* The result of downloadFile is not looked at: whole or not, the file is  *)
(* opened and read.                                                        *)
EndDownload(p) ==
  /\ Writing(p)
  /\ failed' = [failed EXCEPT ![p] = offset[p] < Pieces]
  /\ pc' = [pc EXCEPT ![p] = "size"]
  /\ UNCHANGED <<exists, file, nocache, offset, size, buffer, downloads, disturbed, dirty>>

(* fseek, ftell                                                            *)
Size(p) == Len(file)

TakeSize(p) ==
  /\ pc[p] = "size"
  /\ size' = [size EXCEPT ![p] = Size(p)]
  /\ pc' = [pc EXCEPT ![p] = "read"]
  /\ UNCHANGED <<exists, file, nocache, offset, buffer, history>>

(* malloc(fsize + 1) and fread: what the file no longer has stays as       *)
(* malloc gave it, and so does the byte strlen should stop at.             *)
Read(p) ==
  /\ pc[p] = "read"
  /\ buffer' = [buffer EXCEPT ![p] =
                  [k \in 1 .. size[p] |-> IF k <= Len(file) THEN file[k] ELSE "junk"]]
  /\ \E d \in BOOLEAN : dirty' = [dirty EXCEPT ![p] = d]
  /\ pc' = [pc EXCEPT ![p] = "parse"]
  /\ UNCHANGED <<exists, file, nocache, offset, size, downloads, failed, disturbed>>

---------------------------------------------------------------------------
(* parseTokens and the retry in main. jssy_parse accepts a whole listing   *)
(* and nothing shorter; of one followed by more bytes it may think either. *)

ParseOk(p) ==
  /\ pc[p] = "parse"
  /\ buffer[p] = Whole
  /\ pc' = [pc EXCEPT ![p] = "parsed"]
  /\ UNCHANGED <<exists, file, nocache, offset, size, buffer, history>>

ParseFails(p) == pc[p] = "parse" /\ (buffer[p] # Whole \/ dirty[p])

ForbidCache(p) == nocache' = [nocache EXCEPT ![p] = TRUE]

Reparse(p) ==
  /\ ParseFails(p)
  /\ ~nocache[p]
  /\ ForbidCache(p)
  /\ pc' = [pc EXCEPT ![p] = "open"]
  /\ UNCHANGED <<exists, file, offset, size, buffer, history>>

MayGiveUp(p) == nocache[p]

GiveUp(p) ==
  /\ ParseFails(p)
  /\ MayGiveUp(p)
  /\ pc' = [pc EXCEPT ![p] = "failed"]
  /\ UNCHANGED <<exists, file, nocache, offset, size, buffer, history>>

(* A process may be killed at any time; the file stays as it is.           *)
Kill(p) ==
  /\ pc[p] \notin {"parsed", "failed", "killed"}
  /\ pc' = [pc EXCEPT ![p] = "killed"]
  /\ UNCHANGED <<exists, file, nocache, offset, size, buffer, history>>

Step(p) ==
  \/ OpenCached(p) \/ StartDownload(p) \/ WritePiece(p) \/ EndDownload(p)
  \/ TakeSize(p) \/ Read(p)
  \/ ParseOk(p) \/ Reparse(p) \/ GiveUp(p)

Next == \E p \in Procs : Step(p) \/ Kill(p)

(* Each process runs on; CURLOPT_TIMEOUT bounds a download.                *)
Spec == Init /\ [][Next]_vars /\ \A p \in Procs : WF_vars(Step(p))

---------------------------------------------------------------------------
(* Properties                                                              *)

(* "in case cached json is corrupt, try to redownload and reparse one more *)
(* time": no process gives up because of what it found in the cache. When  *)
(* it does, its own last download failed, another process was writing the  *)
(* file, or the buffer it parsed was not terminated.                       *)
GivesUpForCause ==
  \A p \in Procs : pc[p] = "failed" =>
    /\ downloads[p] > 0
    /\ failed[p] \/ disturbed[p] \/ dirty[p]

(* Every process ends, whatever the others do to the file.                 *)
Terminates == \A p \in Procs : <>(pc[p] \in {"parsed", "failed", "killed"})
=============================================================================
