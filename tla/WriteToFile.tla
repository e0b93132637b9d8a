----------------------------- MODULE WriteToFile -----------------------------
(***************************************************************************)
(* brillo::WriteToFile(path, data, size) followed by                       *)
(* brillo::SyncFileOrDirectory(path, is_directory, data_sync)              *)
(* (src/brillo/file_utils.cc).  WriteToFile hands a size_t to             *)
(* base::WriteFile, which takes an int; sizes are kept at their widths     *)
(* (SizeBits for size_t, IntBits for int, scaled down from 64 and 32).     *)
(* base::WriteFile (libchrome) creat()s the file, writes until all of its  *)
(* int size is written or write() fails, closes, and returns that size or  *)
(* -1; a negative size writes nothing.  The file has the bytes a reader    *)
(* sees (len) and the bytes that survive a crash (synced).                 *)
(***************************************************************************)
EXTENDS Integers

CONSTANTS
  SizeBits,  \* width of size_t
  IntBits    \* width of int

ASSUME WidthAssumption == IntBits \in Nat \ {0} /\ SizeBits \in Nat /\ IntBits <= SizeBits

\* The arithmetic of powers of two the widths rely on (true for every
\* width; stated because the provers have no axioms for ^).
ASSUME PowersOfTwo ==
  /\ 2^(IntBits - 1) \in Nat \ {0}
  /\ 2^IntBits = 2 * 2^(IntBits - 1)
  /\ 2^SizeBits \in Nat \ {0}

VARIABLES
  dir_exists,  \* path.DirName() exists
  file,        \* the file at |path|: [exists, len, synced]
  size,        \* the size argument of WriteToFile
  pc,          \* "write" | "sync" | "done"
  write_ret,   \* return value of WriteToFile
  sync_ret     \* return value of SyncFileOrDirectory

vars == <<dir_exists, file, size, pc, write_ret, sync_ret>>

SizeT == 0 .. 2^SizeBits - 1
IntMax == 2^(IntBits - 1) - 1
\* static_cast<int>(size): the low IntBits bits, as two's complement.
CastToInt(n) ==
  LET m == n % 2^IntBits IN IF m > IntMax THEN m - 2^IntBits ELSE m
NoFile == [exists |-> FALSE, len |-> 0, synced |-> 0]

Init ==
  /\ dir_exists \in BOOLEAN
  /\ file \in {NoFile, [exists |-> TRUE, len |-> 1, synced |-> 1]}
  /\ size \in SizeT
  /\ pc = "write"
  /\ write_ret = FALSE
  /\ sync_ret = FALSE

\* base::WriteFile(path, data, n): -1 if creat fails; otherwise the file is
\* truncated, then written up to all n bytes (a write() may fail midway),
\* then closed; the result is n, or -1 on a write or close failure.
WriteFileResults(n) ==
  {[ret |-> -1, file |-> file]} \cup
  {[ret |-> IF k = n /\ close_ok THEN n ELSE -1,
    file |-> [exists |-> TRUE, len |-> k, synced |-> file.synced]] :
     k \in 0 .. IF n > 0 THEN n ELSE 0, close_ok \in BOOLEAN}

\* Mutant of WriteToFile: the size check before the cast is left out.
WriteToFileWithoutSizeCheck ==
  /\ pc = "write"
  /\ pc' = "sync"
  /\ \E mkdir_ok \in BOOLEAN :
       IF ~dir_exists /\ ~mkdir_ok
         THEN write_ret' = FALSE /\ UNCHANGED <<dir_exists, file>>
         ELSE /\ dir_exists' = TRUE
              /\ \E r \in WriteFileResults(CastToInt(size)) :
                   /\ file' = r.file
                   /\ write_ret' = (r.ret = CastToInt(size))
  /\ UNCHANGED <<size, sync_ret>>

\* WriteToFile: create the directory if missing; reject a size above
\* INT_MAX; base::WriteFile; true iff it returned static_cast<int>(size).
WriteToFile ==
  /\ pc = "write"
  /\ pc' = "sync"
  /\ \E mkdir_ok \in BOOLEAN :
       IF (~dir_exists /\ ~mkdir_ok) \/ size > IntMax
         THEN /\ write_ret' = FALSE
              /\ dir_exists' = (dir_exists \/ mkdir_ok)
              /\ UNCHANGED file
         ELSE /\ dir_exists' = TRUE
              /\ \E r \in WriteFileResults(CastToInt(size)) :
                   /\ file' = r.file
                   /\ write_ret' = (r.ret = CastToInt(size))
  /\ UNCHANGED <<size, sync_ret>>

\* SyncFileOrDirectory(path, is_directory, data_sync): open with
\* O_DIRECTORY (which fails on a regular file) or O_WRONLY; fdatasync (when
\* data_sync and not is_directory) or fsync, either of which makes the data
\* durable; close, which may fail after the data is already durable.
SyncFileOrDirectory ==
  /\ pc = "sync"
  /\ pc' = "done"
  /\ \E is_directory, sync_ok, close_ok \in BOOLEAN :
       IF ~file.exists \/ is_directory
         THEN sync_ret' = FALSE /\ UNCHANGED file
         ELSE /\ file' = IF sync_ok THEN [file EXCEPT !.synced = file.len] ELSE file
              /\ sync_ret' = (sync_ok /\ close_ok)
  /\ UNCHANGED <<dir_exists, size, write_ret>>

Next == WriteToFile \/ SyncFileOrDirectory

Spec == Init /\ [][Next]_vars

-----------------------------------------------------------------------------
(* Properties *)

\* WriteToFile returns true only when the file holds all |size| bytes,
\* for every size_t size: above INT_MAX the cast to int would wrap (to a
\* negative size that base::WriteFile "writes" without writing anything,
\* or to a short one).
WriteReportsAllWritten ==
  pc # "write" /\ write_ret => file.exists /\ file.len = size

=============================================================================
