------------------------- MODULE WriteToFileAtomic -------------------------
(***************************************************************************)
(* brillo::WriteToFileAtomic (src/brillo/file_utils.cc): write the data to *)
(* "<path>.<random suffix>" created with O_CREAT|O_EXCL, loop over partial *)
(* write()s, fdatasync, close, then rename over <path>; every failure      *)
(* after open unlinks the temp name.  Several calls (threads or processes) *)
(* may write the same path at once, and the machine may crash at any      *)
(* moment.  The file system is a directory (the destination name and the  *)
(* temp names) over inodes; an inode has the bytes a reader sees (len) and *)
(* the bytes that survive a crash (synced).  Directory operations are      *)
(* atomic and survive a crash; file data survives only once fdatasync'd.   *)
(* File contents are abstracted to the number of the call's bytes written. *)
(***************************************************************************)
EXTENDS Integers

CONSTANTS
  Writers,     \* concurrent WriteToFileAtomic callers on the same path
  Calls,       \* calls each writer makes
  Size,        \* bytes of data each call writes
  RandBytes,   \* values base::RandBytes may produce for the suffix
  SuffixLen,   \* kBufferSize (6 in the code)
  MaxCrashes   \* machine crashes in one behaviour

ASSUME ConstantsAssumption ==
  /\ Calls \in Nat /\ Size \in Nat \ {0} /\ MaxCrashes \in Nat
  /\ SuffixLen \in Nat \ {0} /\ RandBytes \subseteq 0 .. 255 /\ RandBytes # {}

VARIABLES
  dir_exists,  \* path.DirName() exists
  dest,        \* inode named <path>, or None
  temps,       \* temp name (suffix) -> inode, or None
  inodes,      \* inode id -> [len, synced, epoch]
  next_inode,  \* next inode number the file system hands out
  crashes,     \* crashes so far (the epoch)
  wpc,         \* per writer: where in WriteToFileAtomic it is
  calls,       \* per writer: calls started
  suffix,      \* per writer: random_suffix of the current call
  fd,          \* per writer: inode opened by the current call, or None
  position,    \* per writer: the loop's position
  ret          \* per writer: return value of the last call

vars == <<dir_exists, dest, temps, inodes, next_inode, crashes, wpc, calls,
          suffix, fd, position, ret>>

None == -1
OrigInode == 0

\* Mutant of SuffixChar: the upper-case branch takes one value too many.
SuffixCharOffByOne(b) ==
  LET v == b % (2 * 26 + 10)
  IN  IF v < 26 THEN 97 + v
      ELSE IF v <= 2 * 26 THEN 65 + v - 26
      ELSE 48 + v - 2 * 26

\* GetRandomSuffix: one byte gives one character of [a-zA-Z0-9], as ASCII.
SuffixChar(b) ==
  LET v == b % (2 * 26 + 10)
  IN  IF v < 26 THEN 97 + v
      ELSE IF v < 2 * 26 THEN 65 + v - 26
      ELSE 48 + v - 2 * 26
GetRandomSuffix(bytes) == [i \in 1 .. SuffixLen |-> SuffixChar(bytes[i])]
Suffixes == {GetRandomSuffix(bytes) : bytes \in [1 .. SuffixLen -> RandBytes]}

\* The bytes of the call that still sit in the page cache are lost.
CrashInodes == [i \in DOMAIN inodes |-> [inodes[i] EXCEPT !.len = inodes[i].synced]]

Init ==
  /\ dir_exists \in BOOLEAN
  /\ dest \in IF dir_exists THEN {None, OrigInode} ELSE {None}
  /\ temps = [s \in Suffixes |-> None]
  /\ inodes = [i \in {OrigInode} |-> [len |-> Size, synced |-> Size, epoch |-> 0]]
  /\ next_inode = 1
  /\ crashes = 0
  /\ wpc = [w \in Writers |-> "idle"]
  /\ calls = [w \in Writers |-> 0]
  /\ suffix = [w \in Writers |-> CHOOSE s \in Suffixes : TRUE]
  /\ fd = [w \in Writers |-> None]
  /\ position = [w \in Writers |-> 0]
  /\ ret = [w \in Writers |-> FALSE]

\* Return from the call with result r.
Return(w, r) ==
  /\ wpc' = [wpc EXCEPT ![w] = "done"]
  /\ ret' = [ret EXCEPT ![w] = r]

\* unlink(temp_name): removes whatever the name now refers to.
UnlinkTemp(w) == temps' = [temps EXCEPT ![suffix[w]] = None]

\* A failure after the open: close(fd), unlink(temp_name), return false.
FailAfterOpen(w) ==
  /\ UnlinkTemp(w)
  /\ Return(w, FALSE)
  /\ UNCHANGED <<dir_exists, dest, inodes, next_inode, crashes, calls, suffix,
                 fd, position>>

\* Entry: create the directory if missing, then draw the random suffix
\* (never empty: kBufferSize characters are always pushed).
Begin(w) ==
  /\ wpc[w] \in {"idle", "done"}
  /\ calls[w] < Calls
  /\ calls' = [calls EXCEPT ![w] = @ + 1]
  /\ fd' = [fd EXCEPT ![w] = None]
  /\ position' = [position EXCEPT ![w] = 0]
  /\ \E created \in BOOLEAN, bytes \in [1 .. SuffixLen -> RandBytes] :
       IF dir_exists \/ created
         THEN /\ dir_exists' = TRUE
              /\ suffix' = [suffix EXCEPT ![w] = GetRandomSuffix(bytes)]
              /\ wpc' = [wpc EXCEPT ![w] = "open"]
              /\ UNCHANGED ret
         ELSE /\ Return(w, FALSE)
              /\ UNCHANGED <<dir_exists, suffix>>
  /\ UNCHANGED <<dest, temps, inodes, next_inode, crashes>>

\* open(temp_name, O_CREAT | O_EXCL | O_WRONLY): fails if the name exists
\* (or for another reason); on failure the name is unlinked.
Open(w) ==
  /\ wpc[w] = "open"
  /\ \E fails \in BOOLEAN :
       IF temps[suffix[w]] = None /\ ~fails
         THEN /\ temps' = [temps EXCEPT ![suffix[w]] = next_inode]
              /\ inodes' = [i \in DOMAIN inodes \cup {next_inode} |->
                              IF i = next_inode
                                THEN [len |-> 0, synced |-> 0, epoch |-> crashes]
                                ELSE inodes[i]]
              /\ next_inode' = next_inode + 1
              /\ fd' = [fd EXCEPT ![w] = next_inode]
              /\ wpc' = [wpc EXCEPT ![w] = "write"]
              /\ UNCHANGED <<dir_exists, dest, crashes, calls, suffix, position, ret>>
         ELSE FailAfterOpen(w)

\* Mutants of Write: each write() asks for |size| bytes instead of
\* size - position; the error path returns without unlinking.
WriteWholeSizeEachTime(w) ==
  /\ wpc[w] = "write"
  /\ position[w] < Size
  /\ \/ \E n \in 1 .. Size :
          /\ position' = [position EXCEPT ![w] = @ + n]
          /\ inodes' = [inodes EXCEPT ![fd[w]].len = position[w] + n]
          /\ UNCHANGED <<dir_exists, dest, temps, next_inode, crashes, wpc,
                         calls, suffix, fd, ret>>
     \/ FailAfterOpen(w)
WriteLeakingTemp(w) ==
  /\ wpc[w] = "write"
  /\ position[w] < Size
  /\ \/ \E n \in 1 .. Size - position[w] :
          /\ position' = [position EXCEPT ![w] = @ + n]
          /\ inodes' = [inodes EXCEPT ![fd[w]].len = position[w] + n]
          /\ UNCHANGED <<dir_exists, dest, temps, next_inode, crashes, wpc,
                         calls, suffix, fd, ret>>
     \/ /\ Return(w, FALSE)
        /\ UNCHANGED <<dir_exists, dest, temps, inodes, next_inode, crashes,
                       calls, suffix, fd, position>>

\* write(fd, data + position, size - position): some bytes, or an error.
Write(w) ==
  /\ wpc[w] = "write"
  /\ position[w] < Size
  /\ \/ \E n \in 1 .. Size - position[w] :
          /\ position' = [position EXCEPT ![w] = @ + n]
          /\ inodes' = [inodes EXCEPT ![fd[w]].len = position[w] + n]
          /\ UNCHANGED <<dir_exists, dest, temps, next_inode, crashes, wpc,
                         calls, suffix, fd, ret>>
     \/ FailAfterOpen(w)

\* Mutant of Sync: the fdatasync is left out.
SyncWithoutFdatasync(w) ==
  /\ wpc[w] = "write"
  /\ position[w] >= Size
  /\ \/ /\ wpc' = [wpc EXCEPT ![w] = "close"]
        /\ UNCHANGED <<dir_exists, dest, temps, inodes, next_inode, crashes,
                       calls, suffix, fd, position, ret>>
     \/ FailAfterOpen(w)

\* The loop is left with all bytes written; fdatasync(fd) makes them durable.
Sync(w) ==
  /\ wpc[w] = "write"
  /\ position[w] >= Size
  /\ \/ /\ inodes' = [inodes EXCEPT ![fd[w]].synced = inodes[fd[w]].len]
        /\ wpc' = [wpc EXCEPT ![w] = "close"]
        /\ UNCHANGED <<dir_exists, dest, temps, next_inode, crashes, calls,
                       suffix, fd, position, ret>>
     \/ FailAfterOpen(w)

\* close(fd).
Close(w) ==
  /\ wpc[w] = "close"
  /\ \/ /\ wpc' = [wpc EXCEPT ![w] = "rename"]
        /\ UNCHANGED <<dir_exists, dest, temps, inodes, next_inode, crashes,
                       calls, suffix, fd, position, ret>>
     \/ FailAfterOpen(w)

\* rename(temp_name, path): atomically replaces <path> by whatever the temp
\* name refers to now; fails if the name is gone (or for another reason).
Rename(w) ==
  /\ wpc[w] = "rename"
  /\ \/ /\ temps[suffix[w]] # None
        /\ dest' = temps[suffix[w]]
        /\ UnlinkTemp(w)
        /\ Return(w, TRUE)
        /\ UNCHANGED <<dir_exists, inodes, next_inode, crashes, calls, suffix,
                       fd, position>>
     \/ FailAfterOpen(w)

\* The machine crashes: every call in progress is gone, and each inode
\* keeps only its synced bytes.
Crash ==
  /\ crashes < MaxCrashes
  /\ crashes' = crashes + 1
  /\ inodes' = CrashInodes
  /\ wpc' = [w \in Writers |-> "idle"]
  /\ UNCHANGED <<dir_exists, dest, temps, next_inode, calls, suffix, fd,
                 position, ret>>

Next ==
  \/ \E w \in Writers :
       Begin(w) \/ Open(w) \/ Write(w) \/ Sync(w) \/ Close(w) \/ Rename(w)
  \/ Crash

Spec == Init /\ [][Next]_vars
-----------------------------------------------------------------------------
(* Properties *)

\* The variables keep their types.
TypeOK ==
  /\ dir_exists \in BOOLEAN
  /\ dest \in DOMAIN inodes \cup {None}
  /\ temps \in [Suffixes -> DOMAIN inodes \cup {None}]
  /\ DOMAIN inodes = 0 .. next_inode - 1
  /\ \A i \in DOMAIN inodes :
       inodes[i].synced <= inodes[i].len /\ inodes[i].len <= Size
  /\ crashes \in 0 .. MaxCrashes
  /\ wpc \in [Writers -> {"idle", "open", "write", "close", "rename", "done"}]
  /\ calls \in [Writers -> 0 .. Calls]
  /\ suffix \in [Writers -> Suffixes]
  /\ \A w \in Writers : wpc[w] \in {"write", "close", "rename"} => fd[w] \in DOMAIN inodes
  /\ position \in [Writers -> 0 .. Size]
  /\ ret \in [Writers -> BOOLEAN]

\* The ASCII codes of [0-9A-Z a-z].
AlnumCodes == (48 .. 57) \cup (65 .. 90) \cup (97 .. 122)

\* Every temp file WriteToFileAtomic creates is named "<path>.<suffix>"
\* with a suffix of [0-9A-Za-z] only: GetRandomSuffix's three ranges of
\* buffer[i] % 62 never yield a separator or another special character.
SuffixAlphabet ==
  \A s \in Suffixes :
    temps[s] # None => \A i \in 1 .. SuffixLen : s[i] \in AlnumCodes

\* A reader of <path> sees either the old contents or all of the bytes of
\* one call, also after a crash: the rename only ever installs a temp file
\* whose data the loop wrote completely and fdatasync made durable.
DestOldOrComplete == dest # None => inodes[dest].len = Size

\* Every failure path of WriteToFileAtomic unlinks its temp name: a temp
\* name only refers to the file of a call still in progress, or to a file
\* created before a crash interrupted its call.
TempOnlyWhileInProgress ==
  \A s \in Suffixes :
    temps[s] # None =>
      \/ \E w \in Writers :
           wpc[w] \in {"write", "close", "rename"} /\ fd[w] = temps[s]
      \/ inodes[temps[s]].epoch < crashes

=============================================================================
