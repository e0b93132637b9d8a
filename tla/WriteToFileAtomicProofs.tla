------------------------ MODULE WriteToFileAtomicProofs ------------------------
(***************************************************************************)
(* Proofs about WriteToFileAtomic for every number of writers, calls,     *)
(* data size, suffix length and crashes: the state keeps its types, every *)
(* random suffix is alphanumeric, a temp name only outlives its call       *)
(* across a crash, and with one writer <path> always holds complete data. *)
(***************************************************************************)
EXTENDS WriteToFileAtomic, TLAPS

\* A call between its open() and its return: it holds fd and the temp name.
InProgress(w) == wpc[w] \in {"write", "close", "rename"}

\* Each inode is a record of lengths bounded by Size and of an epoch that
\* is never in the future; fd names an inode or None.
InodesTyped ==
  /\ inodes \in [DOMAIN inodes ->
                   [len : 0 .. Size, synced : 0 .. Size, epoch : 0 .. crashes]]
  /\ fd \in [Writers -> DOMAIN inodes \cup {None}]
  /\ next_inode \in Nat

\* A call reaches open() with the loop's position at 0.  The temp file of a
\* call in the write loop holds its |position| bytes,
\* none of them durable; after fdatasync it holds all Size bytes, durable.
\* Calls in progress hold distinct inodes (each open() creates one).
CallFiles ==
  /\ \A w \in Writers : wpc[w] = "open" => position[w] = 0
  /\ \A w \in Writers : wpc[w] = "write" =>
       inodes[fd[w]].len = position[w] /\ inodes[fd[w]].synced = 0
  /\ \A w \in Writers : wpc[w] \in {"close", "rename"} =>
       inodes[fd[w]].len = Size /\ inodes[fd[w]].synced = Size
  /\ \A w, v \in Writers : InProgress(w) /\ InProgress(v) /\ w # v => fd[w] # fd[v]

\* A live temp name is the file of the call in progress that drew that
\* suffix, or was created before the last crash.
TempsOwned ==
  \A s \in Suffixes : temps[s] # None =>
    \/ \E w \in Writers : InProgress(w) /\ fd[w] = temps[s] /\ suffix[w] = s
    \/ inodes[temps[s]].epoch < crashes

IInv == TypeOK /\ InodesTyped /\ CallFiles /\ TempsOwned

\* With a single writer w: its temp name is its own file while the call is
\* in progress, the loop never writes the inode at <path>, and <path> holds
\* Size durable bytes.
SingleWriterInv(w) ==
  /\ InProgress(w) => temps[suffix[w]] = fd[w]
  /\ wpc[w] = "write" => fd[w] # dest
  /\ dest # None => inodes[dest].len = Size /\ inodes[dest].synced = Size

-----------------------------------------------------------------------------
(* GetRandomSuffix *)

\* The bytes base::RandBytes yields are naturals.
LEMMA RandBytesNat == RandBytes \subseteq Nat
BY ConstantsAssumption

\* Each byte base::RandBytes yields becomes the code of a letter or digit.
LEMMA SuffixCharAlnum ==
  ASSUME NEW b \in Nat
  PROVE  SuffixChar(b) \in AlnumCodes
<1>1. b % 62 \in 0 .. 61
  OBVIOUS
<1>2. QED
  BY <1>1 DEF SuffixChar, AlnumCodes

\* Every suffix GetRandomSuffix can draw consists of letters and digits.
LEMMA SuffixesAlnum ==
  ASSUME NEW s \in Suffixes, NEW i \in 1 .. SuffixLen
  PROVE  s[i] \in AlnumCodes
<1>1. PICK bytes \in [1 .. SuffixLen -> RandBytes] : s = GetRandomSuffix(bytes)
  BY DEF Suffixes
<1>2. bytes[i] \in RandBytes
  BY <1>1, Zenon
<1>3. bytes[i] \in Nat
  BY <1>2, RandBytesNat, Zenon
<1>4. QED
  BY <1>1, <1>3, SuffixCharAlnum DEF GetRandomSuffix

\* There is a suffix to draw.
LEMMA SuffixesNonEmpty == Suffixes # {}
<1>1. PICK b \in RandBytes : TRUE
  BY ConstantsAssumption
<1>2. [i \in 1 .. SuffixLen |-> b] \in [1 .. SuffixLen -> RandBytes]
  BY <1>1
<1>3. GetRandomSuffix([i \in 1 .. SuffixLen |-> b]) \in Suffixes
  <2> DEFINE f == [i \in 1 .. SuffixLen |-> b]
  <2>1. \E bytes \in [1 .. SuffixLen -> RandBytes] :
          GetRandomSuffix(f) = GetRandomSuffix(bytes)
    BY <1>2
  <2>2. QED
    BY <2>1 DEF Suffixes
<1>4. QED
  BY <1>3
-----------------------------------------------------------------------------
(* The inductive invariant *)

LEMMA IInvInit == Init => IInv
<1> SUFFICES ASSUME Init PROVE IInv
  OBVIOUS
<1> USE ConstantsAssumption
<1>1. (CHOOSE s \in Suffixes : TRUE) \in Suffixes
  BY SuffixesNonEmpty
<1>2. TypeOK
  <2>1. /\ dir_exists \in BOOLEAN /\ dest \in DOMAIN inodes \cup {None}
        /\ DOMAIN inodes = 0 .. next_inode - 1 /\ crashes \in 0 .. MaxCrashes
    BY DEF Init, None, OrigInode
  <2>2. temps \in [Suffixes -> DOMAIN inodes \cup {None}]
    BY DEF Init, None
  <2>3. \A i \in DOMAIN inodes : inodes[i].synced <= inodes[i].len /\ inodes[i].len <= Size
    BY DEF Init, OrigInode
  <2>4. /\ wpc \in [Writers -> {"idle", "open", "write", "close", "rename", "done"}]
        /\ calls \in [Writers -> 0 .. Calls] /\ position \in [Writers -> 0 .. Size]
        /\ ret \in [Writers -> BOOLEAN]
        /\ \A w \in Writers : wpc[w] \in {"write", "close", "rename"} => fd[w] \in DOMAIN inodes
    BY DEF Init
  <2>5. suffix \in [Writers -> Suffixes]
    BY <1>1 DEF Init
  <2>6. QED
    BY <2>1, <2>2, <2>3, <2>4, <2>5 DEF TypeOK
<1>3. InodesTyped
  BY DEF Init, InodesTyped, None, OrigInode
<1>4. CallFiles
  BY DEF Init, CallFiles, InProgress
<1>5. TempsOwned
  BY DEF Init, TempsOwned, None
<1>6. QED
  BY <1>2, <1>3, <1>4, <1>5 DEF IInv


\* The program counters a call can be at.
PCs == {"idle", "open", "write", "close", "rename", "done"}

\* Begin: the call draws a suffix and goes to open(), or returns false.
LEMMA BeginInv ==
  ASSUME IInv, NEW w \in Writers, Begin(w)
  PROVE  IInv'
<1> USE ConstantsAssumption
<1>0. /\ wpc[w] \in {"idle", "done"} /\ calls[w] < Calls
      /\ calls' = [calls EXCEPT ![w] = @ + 1]
      /\ fd' = [fd EXCEPT ![w] = None]
      /\ position' = [position EXCEPT ![w] = 0]
      /\ UNCHANGED <<dest, temps, inodes, next_inode, crashes>>
  BY DEF Begin
<1>1. PICK created \in BOOLEAN, bytes \in [1 .. SuffixLen -> RandBytes] :
        IF dir_exists \/ created
          THEN /\ dir_exists' = TRUE
               /\ suffix' = [suffix EXCEPT ![w] = GetRandomSuffix(bytes)]
               /\ wpc' = [wpc EXCEPT ![w] = "open"]
               /\ UNCHANGED ret
          ELSE /\ Return(w, FALSE)
               /\ UNCHANGED <<dir_exists, suffix>>
  BY DEF Begin
<1>2. GetRandomSuffix(bytes) \in Suffixes
  BY DEF Suffixes
<1>3. /\ dir_exists' \in BOOLEAN
      /\ wpc' \in [Writers -> PCs] /\ wpc'[w] \in {"open", "done"}
      /\ \A v \in Writers \ {w} : wpc'[v] = wpc[v]
      /\ suffix' \in [Writers -> Suffixes]
      /\ \A v \in Writers \ {w} : suffix'[v] = suffix[v]
      /\ ret' \in [Writers -> BOOLEAN]
  <2>0. /\ wpc \in [Writers -> PCs] /\ suffix \in [Writers -> Suffixes]
        /\ ret \in [Writers -> BOOLEAN] /\ dir_exists \in BOOLEAN
    BY DEF IInv, TypeOK, PCs
  <2>1. CASE dir_exists \/ created
    <3>1. /\ dir_exists' = TRUE
          /\ suffix' = [suffix EXCEPT ![w] = GetRandomSuffix(bytes)]
          /\ wpc' = [wpc EXCEPT ![w] = "open"]
          /\ UNCHANGED ret
      BY <1>1, <2>1
    <3>2. QED
      BY <1>2, <2>0, <3>1 DEF PCs
  <2>2. CASE ~(dir_exists \/ created)
    <3>1. /\ wpc' = [wpc EXCEPT ![w] = "done"] /\ ret' = [ret EXCEPT ![w] = FALSE]
          /\ UNCHANGED <<dir_exists, suffix>>
      BY <1>1, <2>2 DEF Return
    <3>2. QED
      BY <2>0, <3>1 DEF PCs
  <2>3. QED
    BY <2>1, <2>2
<1>4. TypeOK'
  <2>1. /\ dest' \in DOMAIN inodes' \cup {None}
        /\ temps' \in [Suffixes -> DOMAIN inodes' \cup {None}]
        /\ DOMAIN inodes' = 0 .. next_inode' - 1
        /\ \A i \in DOMAIN inodes' :
             inodes'[i].synced <= inodes'[i].len /\ inodes'[i].len <= Size
        /\ crashes' \in 0 .. MaxCrashes
    BY <1>0 DEF IInv, TypeOK
  <2>2. calls' \in [Writers -> 0 .. Calls]
    BY <1>0 DEF IInv, TypeOK
  <2>3. position' \in [Writers -> 0 .. Size]
    BY <1>0 DEF IInv, TypeOK
  <2>4. \A v \in Writers : wpc'[v] \in {"write", "close", "rename"} => fd'[v] \in DOMAIN inodes'
    BY <1>0, <1>3 DEF IInv, TypeOK
  <2>5. QED
    BY <1>3, <2>1, <2>2, <2>3, <2>4 DEF TypeOK, PCs
<1>5. InodesTyped'
  BY <1>0 DEF IInv, InodesTyped, None
<1>6. CallFiles'
  <2>1. /\ position \in [Writers -> 0 .. Size]
        /\ fd \in [Writers -> DOMAIN inodes \cup {None}]
    BY DEF IInv, TypeOK, InodesTyped
  <2>2. \A v \in Writers : wpc'[v] = "open" => position'[v] = 0
    BY <1>0, <1>3, <2>1 DEF IInv, CallFiles
  <2>3. \A v \in Writers : InProgress(v)' => v # w /\ InProgress(v) /\ wpc'[v] = wpc[v]
                                          /\ fd'[v] = fd[v] /\ position'[v] = position[v]
    BY <1>0, <1>3, <2>1 DEF InProgress
  <2>4. \A v \in Writers : wpc'[v] \in {"write", "close", "rename"} =>
          v # w /\ wpc'[v] = wpc[v] /\ fd'[v] = fd[v] /\ position'[v] = position[v]
    BY <1>0, <1>3
  <2>5. \A v \in Writers : wpc'[v] = "write" =>
          inodes'[fd'[v]].len = position'[v] /\ inodes'[fd'[v]].synced = 0
    BY <1>0, <2>4 DEF IInv, CallFiles
  <2>6. \A v \in Writers : wpc'[v] \in {"close", "rename"} =>
          inodes'[fd'[v]].len = Size /\ inodes'[fd'[v]].synced = Size
    BY <1>0, <2>4 DEF IInv, CallFiles
  <2>7. \A v, u \in Writers : InProgress(v)' /\ InProgress(u)' /\ v # u => fd'[v] # fd'[u]
    BY <2>3 DEF IInv, CallFiles
  <2>8. QED
    BY <2>2, <2>5, <2>6, <2>7, Zenon DEF CallFiles
<1>7. TempsOwned'
  <2>1. SUFFICES ASSUME NEW s \in Suffixes, temps'[s] # None,
                        ~(inodes'[temps'[s]].epoch < crashes')
                 PROVE  \E v \in Writers : InProgress(v)' /\ fd'[v] = temps'[s]
                                           /\ suffix'[v] = s
    BY <1>0 DEF TempsOwned, IInv, TypeOK, InodesTyped
  <2>a. /\ temps[s] # None /\ temps[s] \in DOMAIN inodes
        /\ inodes[temps[s]].epoch \in Nat /\ crashes \in Nat
    BY <1>0, <2>1 DEF IInv, TypeOK, InodesTyped
  <2>b. ~(inodes[temps[s]].epoch < crashes)
    BY <1>0, <2>1, <2>a
  <2>2. PICK v \in Writers : InProgress(v) /\ fd[v] = temps[s] /\ suffix[v] = s
    BY <2>a, <2>b DEF IInv, TempsOwned
  <2>3. v # w
    BY <1>0, <2>2 DEF InProgress
  <2>4. InProgress(v)' /\ fd'[v] = fd[v] /\ suffix'[v] = suffix[v]
    BY <1>0, <1>3, <2>2, <2>3 DEF InProgress, IInv, InodesTyped
  <2>5. QED
    BY <1>0, <2>2, <2>4
<1>8. QED
  BY <1>4, <1>5, <1>6, <1>7 DEF IInv

\* Crash: every call is gone and each inode keeps its synced bytes.
LEMMA CrashInv ==
  ASSUME IInv, Crash
  PROVE  IInv'
<1> USE ConstantsAssumption
<1>0. /\ crashes < MaxCrashes /\ crashes' = crashes + 1
      /\ inodes' = CrashInodes /\ wpc' = [v \in Writers |-> "idle"]
      /\ UNCHANGED <<dir_exists, dest, temps, next_inode, calls, suffix, fd,
                     position, ret>>
  BY DEF Crash
<1>1. /\ DOMAIN inodes' = DOMAIN inodes
      /\ \A i \in DOMAIN inodes :
           /\ inodes'[i].len = inodes[i].synced
           /\ inodes'[i].synced = inodes[i].synced
           /\ inodes'[i].epoch = inodes[i].epoch
  BY <1>0 DEF CrashInodes, IInv, InodesTyped
<1>2. TypeOK'
  BY <1>0, <1>1 DEF IInv, TypeOK, InodesTyped
<1>3. InodesTyped'
  <2>1. ASSUME NEW i \in DOMAIN inodes
        PROVE  inodes'[i] \in [len : 0 .. Size, synced : 0 .. Size,
                                 epoch : 0 .. crashes']
  <3>2. inodes[i] \in [len : 0 .. Size, synced : 0 .. Size, epoch : 0 .. crashes]
    BY DEF IInv, InodesTyped
  <3>3. inodes'[i] = [len |-> inodes[i].synced, synced |-> inodes[i].synced,
                      epoch |-> inodes[i].epoch]
    BY <1>0, <3>2 DEF CrashInodes
  <3>4. QED
    BY <1>0, <3>2, <3>3 DEF IInv, TypeOK
  <2>2. inodes' \in [DOMAIN inodes' -> [len : 0 .. Size, synced : 0 .. Size,
                                          epoch : 0 .. crashes']]
    BY <1>0, <1>1, <2>1 DEF CrashInodes
  <2>3. fd' \in [Writers -> DOMAIN inodes' \cup {None}] /\ next_inode' \in Nat
    BY <1>0, <1>1 DEF IInv, InodesTyped
  <2>4. QED
    BY <2>2, <2>3 DEF InodesTyped
<1>4. CallFiles'
  BY <1>0 DEF CallFiles, InProgress
<1>5. TempsOwned'
  BY <1>0, <1>1 DEF IInv, TypeOK, InodesTyped, TempsOwned
<1>6. QED
  BY <1>2, <1>3, <1>4, <1>5 DEF IInv


\* A call that ends after open() unlinks its temp name and returns r; a
\* rename has first put an inode d at <path>.  This keeps the invariant.
LEMMA EndCallInv ==
  ASSUME IInv, NEW w \in Writers, NEW r \in BOOLEAN, NEW d \in DOMAIN inodes \cup {None},
         temps' = [temps EXCEPT ![suffix[w]] = None],
         wpc' = [wpc EXCEPT ![w] = "done"], ret' = [ret EXCEPT ![w] = r],
         dest' = d,
         UNCHANGED <<dir_exists, inodes, next_inode, crashes, calls, suffix,
                     fd, position>>
  PROVE  IInv'
<1> USE ConstantsAssumption
<1>0. /\ temps' = [temps EXCEPT ![suffix[w]] = None]
      /\ wpc' = [wpc EXCEPT ![w] = "done"] /\ ret' = [ret EXCEPT ![w] = r]
      /\ UNCHANGED <<dir_exists, inodes, next_inode, crashes, calls, suffix,
                     fd, position>>
  OBVIOUS
<1>1. /\ temps \in [Suffixes -> DOMAIN inodes \cup {None}] /\ suffix[w] \in Suffixes
      /\ wpc \in [Writers -> PCs] /\ ret \in [Writers -> BOOLEAN]
  BY DEF IInv, TypeOK, PCs
<1>2. TypeOK'
  <2>1. /\ temps' \in [Suffixes -> DOMAIN inodes' \cup {None}]
        /\ wpc' \in [Writers -> {"idle", "open", "write", "close", "rename", "done"}]
        /\ ret' \in [Writers -> BOOLEAN]
        /\ dest' \in DOMAIN inodes' \cup {None}
    BY <1>0, <1>1 DEF PCs
  <2>2. \A v \in Writers : wpc'[v] \in {"write", "close", "rename"} => fd'[v] \in DOMAIN inodes'
    BY <1>0, <1>1 DEF IInv, TypeOK
  <2>3. QED
    BY <1>0, <2>1, <2>2 DEF IInv, TypeOK
<1>3. InodesTyped'
  BY <1>0 DEF IInv, InodesTyped
<1>4. CallFiles'
  BY <1>0, <1>1 DEF IInv, CallFiles, InProgress
<1>5. TempsOwned'
  <2>1. SUFFICES ASSUME NEW s \in Suffixes, temps'[s] # None,
                        ~(inodes'[temps'[s]].epoch < crashes')
                 PROVE  \E v \in Writers : InProgress(v)' /\ fd'[v] = temps'[s]
                                           /\ suffix'[v] = s
    BY <1>0 DEF TempsOwned, IInv, TypeOK, InodesTyped
  <2>a. /\ s # suffix[w] /\ temps'[s] = temps[s]
        /\ temps[s] # None /\ temps[s] \in DOMAIN inodes
        /\ inodes[temps[s]].epoch \in Nat /\ crashes \in Nat
    BY <1>0, <1>1, <2>1 DEF IInv, TypeOK, InodesTyped
  <2>b. ~(inodes[temps[s]].epoch < crashes)
    BY <1>0, <2>1, <2>a
  <2>2. PICK v \in Writers : InProgress(v) /\ fd[v] = temps[s] /\ suffix[v] = s
    BY <2>a, <2>b DEF IInv, TempsOwned
  <2>3. v # w
    BY <2>a, <2>2
  <2>4. InProgress(v)' /\ fd'[v] = fd[v] /\ suffix'[v] = suffix[v]
    BY <1>0, <1>1, <2>2, <2>3 DEF InProgress
  <2>5. QED
    BY <2>a, <2>2, <2>4
<1>6. QED
  BY <1>2, <1>3, <1>4, <1>5 DEF IInv

\* The failure path after open(): close, unlink the temp name, return false.
LEMMA FailAfterOpenInv ==
  ASSUME IInv, NEW w \in Writers, FailAfterOpen(w)
  PROVE  IInv'
<1>1. dest \in DOMAIN inodes \cup {None} /\ FALSE \in BOOLEAN
  BY DEF IInv, TypeOK
<1>2. QED
  BY <1>1, EndCallInv DEF FailAfterOpen, UnlinkTemp, Return

\* Open: open(O_CREAT | O_EXCL) creates a fresh inode under the call's
\* temp name, or the call takes the failure path.
LEMMA OpenInv ==
  ASSUME IInv, NEW w \in Writers, Open(w)
  PROVE  IInv'
<1> USE ConstantsAssumption
<1>1. PICK fails \in BOOLEAN :
        IF temps[suffix[w]] = None /\ ~fails
          THEN /\ temps' = [temps EXCEPT ![suffix[w]] = next_inode]
               /\ inodes' = [i \in DOMAIN inodes \cup {next_inode} |->
                               IF i = next_inode
                                 THEN [len |-> 0, synced |-> 0, epoch |-> crashes]
                                 ELSE inodes[i]]
               /\ next_inode' = next_inode + 1
               /\ fd' = [fd EXCEPT ![w] = next_inode]
               /\ wpc' = [wpc EXCEPT ![w] = "write"]
               /\ UNCHANGED <<dir_exists, dest, crashes, calls, suffix, position, ret>>
          ELSE FailAfterOpen(w)
  BY DEF Open
<1>2. CASE ~(temps[suffix[w]] = None /\ ~fails)
  BY <1>1, <1>2, FailAfterOpenInv
<1>3. CASE temps[suffix[w]] = None /\ ~fails
  <2> DEFINE new == [len |-> 0, synced |-> 0, epoch |-> crashes]
  <2>0. /\ temps' = [temps EXCEPT ![suffix[w]] = next_inode]
        /\ inodes' = [i \in DOMAIN inodes \cup {next_inode} |->
                        IF i = next_inode THEN new ELSE inodes[i]]
        /\ next_inode' = next_inode + 1
        /\ fd' = [fd EXCEPT ![w] = next_inode]
        /\ wpc' = [wpc EXCEPT ![w] = "write"]
        /\ UNCHANGED <<dir_exists, dest, crashes, calls, suffix, position, ret>>
    BY <1>1, <1>3
  <2>a. /\ wpc[w] = "open" /\ position[w] = 0
        /\ suffix[w] \in Suffixes /\ wpc \in [Writers -> PCs]
        /\ fd \in [Writers -> DOMAIN inodes \cup {None}]
        /\ temps \in [Suffixes -> DOMAIN inodes \cup {None}]
        /\ crashes \in 0 .. MaxCrashes
        /\ DOMAIN inodes = 0 .. next_inode - 1
    BY DEF Open, IInv, TypeOK, InodesTyped, CallFiles, PCs
  <2>b. next_inode \in Nat
    BY DEF IInv, InodesTyped
  <2>1. /\ wpc[w] = "open" /\ position[w] = 0
        /\ next_inode \in Nat /\ crashes \in 0 .. MaxCrashes
        /\ DOMAIN inodes = 0 .. next_inode - 1 /\ next_inode \notin DOMAIN inodes
        /\ DOMAIN inodes' = 0 .. next_inode' - 1
        /\ inodes'[next_inode] = new
        /\ \A i \in DOMAIN inodes : inodes'[i] = inodes[i]
        /\ suffix[w] \in Suffixes /\ wpc \in [Writers -> PCs]
        /\ fd \in [Writers -> DOMAIN inodes \cup {None}]
        /\ temps \in [Suffixes -> DOMAIN inodes \cup {None}]
    BY <2>0, <2>a, <2>b
  <2>2. TypeOK'
    BY <2>0, <2>1 DEF IInv, TypeOK, PCs
  <2>3. InodesTyped'
    BY <2>0, <2>1 DEF IInv, InodesTyped
  <2>4. CallFiles'
    <3>1. ~InProgress(w)
      BY <2>1 DEF InProgress
    <3>2. \A v \in Writers \ {w} : InProgress(v) => fd[v] \in DOMAIN inodes
      BY DEF IInv, TypeOK, InProgress
    <3>3. QED
      BY <2>0, <2>1, <3>1, <3>2 DEF IInv, CallFiles, InProgress
  <2>5. TempsOwned'
    <3>1. SUFFICES ASSUME NEW s \in Suffixes, temps'[s] # None,
                          ~(inodes'[temps'[s]].epoch < crashes')
                   PROVE  \E v \in Writers : InProgress(v)' /\ fd'[v] = temps'[s]
                                             /\ suffix'[v] = s
      BY DEF TempsOwned
    <3>2. CASE s = suffix[w]
      <4>1. InProgress(w)' /\ fd'[w] = temps'[s] /\ suffix'[w] = s
        BY <2>0, <2>1, <3>2 DEF InProgress
      <4>2. QED
        BY <4>1
    <3>3. CASE s # suffix[w]
      <4>1. /\ temps'[s] = temps[s] /\ temps[s] \in DOMAIN inodes
            /\ inodes'[temps[s]] = inodes[temps[s]]
            /\ inodes[temps[s]].epoch \in Nat
        BY <2>0, <2>1, <3>1, <3>3 DEF IInv, TypeOK, InodesTyped
      <4>2. ~(inodes[temps[s]].epoch < crashes)
        BY <2>0, <3>1, <4>1
      <4>3. PICK v \in Writers : InProgress(v) /\ fd[v] = temps[s] /\ suffix[v] = s
        BY <3>1, <4>1, <4>2 DEF IInv, TempsOwned
      <4>4. v # w
        BY <2>1, <4>3 DEF InProgress
      <4>5. QED
        BY <2>0, <2>1, <4>1, <4>3, <4>4 DEF InProgress
    <3>4. QED
      BY <3>2, <3>3
  <2>6. QED
    BY <2>2, <2>3, <2>4, <2>5 DEF IInv
<1>4. QED
  BY <1>2, <1>3


\* One pass of the write loop: write() appends n bytes to the call's own
\* inode, which no other call in progress holds.
LEMMA WriteInv ==
  ASSUME IInv, NEW w \in Writers, Write(w)
  PROVE  IInv'
<1> USE ConstantsAssumption
<1>1. CASE FailAfterOpen(w)
  BY <1>1, FailAfterOpenInv
<1>2. CASE ~FailAfterOpen(w)
  <2>1. PICK n \in 1 .. Size - position[w] :
          /\ position' = [position EXCEPT ![w] = @ + n]
          /\ inodes' = [inodes EXCEPT ![fd[w]].len = position[w] + n]
          /\ UNCHANGED <<dir_exists, dest, temps, next_inode, crashes, wpc,
                         calls, suffix, fd, ret>>
    BY <1>2 DEF Write
  <2>2. /\ wpc[w] = "write" /\ position[w] \in 0 .. Size
        /\ fd[w] \in DOMAIN inodes
        /\ inodes[fd[w]] \in [len : 0 .. Size, synced : 0 .. Size, epoch : 0 .. crashes]
        /\ inodes[fd[w]].synced = 0
        /\ position \in [Writers -> 0 .. Size]
    BY DEF Write, IInv, TypeOK, InodesTyped, CallFiles
  <2>3. /\ DOMAIN inodes' = DOMAIN inodes
        /\ inodes'[fd[w]] = [len |-> position[w] + n, synced |-> 0,
                             epoch |-> inodes[fd[w]].epoch]
        /\ \A i \in DOMAIN inodes \ {fd[w]} : inodes'[i] = inodes[i]
        /\ position'[w] = position[w] + n /\ position[w] + n \in 1 .. Size
        /\ \A v \in Writers \ {w} : position'[v] = position[v]
    BY <2>1, <2>2
  <2>4. \A v \in Writers : InProgress(v) /\ v # w => fd[v] # fd[w]
    BY <2>2 DEF IInv, CallFiles, InProgress
  <2>5. TypeOK'
    <3>1. \A i \in DOMAIN inodes' : inodes'[i].synced <= inodes'[i].len /\ inodes'[i].len <= Size
      <4>1. SUFFICES ASSUME NEW i \in DOMAIN inodes'
                     PROVE  inodes'[i].synced <= inodes'[i].len /\ inodes'[i].len <= Size
        OBVIOUS
      <4>2. CASE i = fd[w]
        BY <2>3, <4>2
      <4>3. CASE i # fd[w]
        <5>1. i \in DOMAIN inodes /\ inodes'[i] = inodes[i]
          BY <2>3, <4>3
        <5>2. QED
          BY <5>1 DEF IInv, TypeOK
      <4>4. QED
        BY <4>2, <4>3
    <3>2. position' \in [Writers -> 0 .. Size]
      BY <2>1, <2>2
    <3>3. QED
      BY <2>1, <2>3, <3>1, <3>2 DEF IInv, TypeOK
  <2>6. InodesTyped'
    BY <2>1, <2>2, <2>3 DEF IInv, TypeOK, InodesTyped
  <2>7. CallFiles'
    <3>1. \A v \in Writers : InProgress(v) => fd[v] \in DOMAIN inodes
      BY DEF IInv, TypeOK, InProgress
    <3>2. \A v \in Writers : v # w /\ InProgress(v) =>
            inodes'[fd[v]] = inodes[fd[v]] /\ position'[v] = position[v]
      BY <2>3, <2>4, <3>1
    <3>3. inodes'[fd[w]].len = position'[w] /\ inodes'[fd[w]].synced = 0
      BY <2>3
    <3>4. \A v \in Writers : wpc[v] = "open" => v # w /\ position'[v] = position[v]
      BY <2>2, <2>3
    <3>5. QED
      BY <2>1, <2>2, <3>2, <3>3, <3>4 DEF IInv, CallFiles, InProgress
  <2>8. TempsOwned'
    <3>1. SUFFICES ASSUME NEW s \in Suffixes, temps'[s] # None
                   PROVE  \/ \E v \in Writers : InProgress(v)' /\ fd'[v] = temps'[s]
                                                /\ suffix'[v] = s
                          \/ inodes'[temps'[s]].epoch < crashes'
      BY DEF TempsOwned
    <3>2. temps[s] \in DOMAIN inodes /\ inodes'[temps[s]].epoch = inodes[temps[s]].epoch
      BY <2>1, <2>2, <2>3, <3>1 DEF IInv, TypeOK
    <3>3. QED
      BY <2>1, <3>1, <3>2 DEF IInv, TempsOwned, InProgress
  <2>9. QED
    BY <2>5, <2>6, <2>7, <2>8 DEF IInv
<1>3. QED
  BY <1>1, <1>2

\* The loop is done: fdatasync() makes the call's Size bytes durable.
LEMMA SyncInv ==
  ASSUME IInv, NEW w \in Writers, Sync(w)
  PROVE  IInv'
<1> USE ConstantsAssumption
<1>1. CASE FailAfterOpen(w)
  BY <1>1, FailAfterOpenInv
<1>2. CASE ~FailAfterOpen(w)
  <2>1. /\ inodes' = [inodes EXCEPT ![fd[w]].synced = inodes[fd[w]].len]
        /\ wpc' = [wpc EXCEPT ![w] = "close"]
        /\ UNCHANGED <<dir_exists, dest, temps, next_inode, crashes, calls,
                       suffix, fd, position, ret>>
    BY <1>2 DEF Sync
  <2>2. /\ wpc[w] = "write" /\ position[w] = Size
        /\ fd[w] \in DOMAIN inodes
        /\ inodes[fd[w]] \in [len : 0 .. Size, synced : 0 .. Size, epoch : 0 .. crashes]
        /\ inodes[fd[w]].len = Size
        /\ wpc \in [Writers -> PCs]
    BY DEF Sync, IInv, TypeOK, InodesTyped, CallFiles, PCs
  <2>3. /\ DOMAIN inodes' = DOMAIN inodes
        /\ inodes'[fd[w]] = [len |-> Size, synced |-> Size,
                             epoch |-> inodes[fd[w]].epoch]
        /\ \A i \in DOMAIN inodes \ {fd[w]} : inodes'[i] = inodes[i]
        /\ wpc'[w] = "close" /\ \A v \in Writers \ {w} : wpc'[v] = wpc[v]
        /\ wpc' \in [Writers -> PCs]
    BY <2>1, <2>2 DEF PCs
  <2>4. \A v \in Writers : InProgress(v) /\ v # w => fd[v] # fd[w]
    BY <2>2 DEF IInv, CallFiles, InProgress
  <2>5. TypeOK'
    BY <2>1, <2>2, <2>3 DEF IInv, TypeOK, PCs
  <2>6. InodesTyped'
    BY <2>1, <2>2, <2>3 DEF IInv, TypeOK, InodesTyped
  <2>7. CallFiles'
    BY <2>1, <2>2, <2>3, <2>4 DEF IInv, TypeOK, CallFiles, InProgress
  <2>8. TempsOwned'
    <3>1. SUFFICES ASSUME NEW s \in Suffixes, temps'[s] # None
                   PROVE  \/ \E v \in Writers : InProgress(v)' /\ fd'[v] = temps'[s]
                                                /\ suffix'[v] = s
                          \/ inodes'[temps'[s]].epoch < crashes'
      BY DEF TempsOwned
    <3>2. temps[s] \in DOMAIN inodes /\ inodes'[temps[s]].epoch = inodes[temps[s]].epoch
      BY <2>1, <2>2, <2>3, <3>1 DEF IInv, TypeOK
    <3>3. QED
      BY <2>1, <2>3, <3>1, <3>2 DEF IInv, TempsOwned, InProgress
  <2>9. QED
    BY <2>5, <2>6, <2>7, <2>8 DEF IInv
<1>3. QED
  BY <1>1, <1>2


\* close(fd): the call moves on to rename(), or fails.
LEMMA CloseInv ==
  ASSUME IInv, NEW w \in Writers, Close(w)
  PROVE  IInv'
<1>1. CASE FailAfterOpen(w)
  BY <1>1, FailAfterOpenInv
<1>2. CASE ~FailAfterOpen(w)
  <2>1. /\ wpc[w] = "close" /\ wpc' = [wpc EXCEPT ![w] = "rename"]
        /\ UNCHANGED <<dir_exists, dest, temps, inodes, next_inode, crashes,
                       calls, suffix, fd, position, ret>>
    BY <1>2 DEF Close
  <2>2. wpc \in [Writers -> PCs]
    BY DEF IInv, TypeOK, PCs
  <2>3. TypeOK'
    BY <2>1, <2>2 DEF IInv, TypeOK, PCs
  <2>4. InodesTyped'
    BY <2>1 DEF IInv, InodesTyped
  <2>5. CallFiles'
    BY <2>1, <2>2 DEF IInv, CallFiles, InProgress
  <2>6. TempsOwned'
    BY <2>1, <2>2 DEF IInv, TempsOwned, InProgress
  <2>7. QED
    BY <2>3, <2>4, <2>5, <2>6 DEF IInv
<1>3. QED
  BY <1>1, <1>2

\* rename(temp_name, path) puts whatever the temp name refers to at <path>
\* and ends the call, or the call fails.
LEMMA RenameInv ==
  ASSUME IInv, NEW w \in Writers, Rename(w)
  PROVE  IInv'
<1>1. CASE FailAfterOpen(w)
  BY <1>1, FailAfterOpenInv
<1>2. CASE ~FailAfterOpen(w)
  <2>1. /\ temps[suffix[w]] # None
        /\ dest' = temps[suffix[w]]
        /\ UnlinkTemp(w)
        /\ Return(w, TRUE)
        /\ UNCHANGED <<dir_exists, inodes, next_inode, crashes, calls, suffix,
                       fd, position>>
    BY <1>2 DEF Rename
  <2>2. temps[suffix[w]] \in DOMAIN inodes /\ TRUE \in BOOLEAN
    BY <2>1 DEF IInv, TypeOK
  <2>3. QED
    BY <2>1, <2>2, EndCallInv DEF UnlinkTemp, Return
<1>3. QED
  BY <1>1, <1>2

\* A stuttering step changes nothing the invariant reads.
LEMMA StutterInv ==
  ASSUME IInv, UNCHANGED vars
  PROVE  IInv'
BY DEF vars, IInv, TypeOK, InodesTyped, CallFiles, TempsOwned, InProgress

LEMMA IInvNext == IInv /\ [Next]_vars => IInv'
<1> SUFFICES ASSUME IInv, [Next]_vars PROVE IInv'
  OBVIOUS
<1>1. CASE \E w \in Writers :
             Begin(w) \/ Open(w) \/ Write(w) \/ Sync(w) \/ Close(w) \/ Rename(w)
  BY <1>1, BeginInv, OpenInv, WriteInv, SyncInv, CloseInv, RenameInv
<1>2. CASE Crash
  BY <1>2, CrashInv
<1>3. CASE UNCHANGED vars
  BY <1>3, StutterInv
<1>4. QED
  BY <1>1, <1>2, <1>3 DEF Next

\* The invariant holds in every reachable state, for any number of writers.
LEMMA IInvHolds == Spec => []IInv
<1>1. Init => IInv
  BY IInvInit
<1>2. IInv /\ [Next]_vars => IInv'
  BY IInvNext
<1>3. QED
  BY <1>1, <1>2, PTL DEF Spec
-----------------------------------------------------------------------------
(* Theorems *)

\* Type correctness of WriteToFileAtomic with any number of concurrent
\* writers and crashes: every name refers to an existing inode, the bytes a
\* reader sees never exceed Size and include every durable byte, and the
\* loop's position stays within the data.
THEOREM TypeCorrect == Spec => []TypeOK
BY IInvHolds, PTL DEF IInv

\* Every temp name in the directory has a suffix of [0-9A-Za-z] only:
\* GetRandomSuffix maps each byte into one of its three ranges.
THEOREM SuffixAlphabetHolds == Spec => []SuffixAlphabet
<1>1. SuffixAlphabet
  BY SuffixesAlnum DEF SuffixAlphabet
<1>2. IInv => SuffixAlphabet
  BY <1>1
<1>3. QED
  BY IInvHolds, <1>2, PTL

\* Every failure path of WriteToFileAtomic unlinks its temp name, with any
\* number of concurrent writers: a temp name refers to the file of a call
\* still in progress, or to one a crash cut short.
THEOREM TempOnlyWhileInProgressHolds == Spec => []TempOnlyWhileInProgress
<1>1. IInv => TempOnlyWhileInProgress
  BY DEF IInv, TempsOwned, TempOnlyWhileInProgress, InProgress
<1>2. QED
  BY IInvHolds, <1>1, PTL

-----------------------------------------------------------------------------
(* One writer *)

\* With one writer the strengthened invariant holds initially.
LEMMA SingleInit ==
  ASSUME NEW w0 \in Writers
  PROVE  Init => SingleWriterInv(w0)
BY ConstantsAssumption DEF Init, SingleWriterInv, InProgress, None, OrigInode

\* A failure after open() leaves <path> and the inodes alone and ends the
\* call.
LEMMA SingleFail ==
  ASSUME NEW w0 \in Writers, IInv, SingleWriterInv(w0), FailAfterOpen(w0)
  PROVE  SingleWriterInv(w0)'
<1>1. /\ wpc' = [wpc EXCEPT ![w0] = "done"] /\ wpc \in [Writers -> PCs]
      /\ UNCHANGED <<dest, inodes>>
  BY DEF FailAfterOpen, Return, IInv, TypeOK, PCs
<1>2. QED
  BY <1>1 DEF SingleWriterInv, InProgress

LEMMA SingleNext ==
  ASSUME NEW w0, Writers = {w0}, IInv, SingleWriterInv(w0), [Next]_vars
  PROVE  SingleWriterInv(w0)'
<1> USE ConstantsAssumption
<1>0. /\ wpc \in [Writers -> PCs] /\ fd \in [Writers -> DOMAIN inodes \cup {None}]
      /\ dest \in DOMAIN inodes \cup {None} /\ next_inode \in Nat
      /\ DOMAIN inodes = 0 .. next_inode - 1
      /\ temps \in [Suffixes -> DOMAIN inodes \cup {None}] /\ suffix[w0] \in Suffixes
      /\ dest # None => inodes[dest].len = Size /\ inodes[dest].synced = Size
  BY DEF IInv, TypeOK, InodesTyped, SingleWriterInv, PCs
<1>1. CASE Begin(w0)
  BY <1>0, <1>1 DEF Begin, Return, SingleWriterInv, InProgress
<1>2. CASE Open(w0)
  <2>1. PICK fails \in BOOLEAN :
          IF temps[suffix[w0]] = None /\ ~fails
            THEN /\ temps' = [temps EXCEPT ![suffix[w0]] = next_inode]
                 /\ inodes' = [i \in DOMAIN inodes \cup {next_inode} |->
                                 IF i = next_inode
                                   THEN [len |-> 0, synced |-> 0, epoch |-> crashes]
                                   ELSE inodes[i]]
                 /\ next_inode' = next_inode + 1
                 /\ fd' = [fd EXCEPT ![w0] = next_inode]
                 /\ wpc' = [wpc EXCEPT ![w0] = "write"]
                 /\ UNCHANGED <<dir_exists, dest, crashes, calls, suffix, position, ret>>
            ELSE FailAfterOpen(w0)
    BY <1>2 DEF Open
  <2>2. CASE temps[suffix[w0]] = None /\ ~fails
    <3>1. /\ temps'[suffix'[w0]] = next_inode /\ fd'[w0] = next_inode
          /\ dest' = dest /\ next_inode # dest
          /\ dest # None => inodes'[dest] = inodes[dest]
      BY <1>0, <2>1, <2>2 DEF None
    <3>2. QED
      BY <1>0, <3>1 DEF SingleWriterInv
  <2>3. CASE ~(temps[suffix[w0]] = None /\ ~fails)
    BY <2>1, <2>3, SingleFail
  <2>4. QED
    BY <2>2, <2>3
<1>3. CASE Write(w0)
  <2>1. CASE FailAfterOpen(w0)
    BY <2>1, SingleFail
  <2>2. CASE ~FailAfterOpen(w0)
    <3>1. PICK n \in 1 .. Size - position[w0] :
            /\ inodes' = [inodes EXCEPT ![fd[w0]].len = position[w0] + n]
            /\ UNCHANGED <<dest, temps, wpc, suffix, fd>>
      BY <1>3, <2>2 DEF Write
    <3>2. wpc[w0] = "write" /\ fd[w0] # dest
      BY <1>3 DEF Write, SingleWriterInv
    <3>3. dest # None => inodes'[dest] = inodes[dest]
      BY <1>0, <3>1, <3>2
    <3>4. QED
      BY <1>0, <3>1, <3>3 DEF SingleWriterInv, InProgress
  <2>3. QED
    BY <2>1, <2>2
<1>4. CASE Sync(w0)
  <2>1. CASE FailAfterOpen(w0)
    BY <2>1, SingleFail
  <2>2. CASE ~FailAfterOpen(w0)
    <3>1. /\ inodes' = [inodes EXCEPT ![fd[w0]].synced = inodes[fd[w0]].len]
          /\ wpc' = [wpc EXCEPT ![w0] = "close"]
          /\ UNCHANGED <<dest, temps, suffix, fd>>
      BY <1>4, <2>2 DEF Sync
    <3>2. wpc[w0] = "write" /\ fd[w0] # dest
      BY <1>4 DEF Sync, SingleWriterInv
    <3>3. dest # None => inodes'[dest] = inodes[dest]
      BY <1>0, <3>1, <3>2
    <3>4. QED
      BY <1>0, <3>1, <3>2, <3>3 DEF SingleWriterInv, InProgress
  <2>3. QED
    BY <2>1, <2>2
<1>5. CASE Close(w0)
  <2>1. CASE FailAfterOpen(w0)
    BY <2>1, SingleFail
  <2>2. CASE ~FailAfterOpen(w0)
    BY <1>0, <1>5, <2>2 DEF Close, SingleWriterInv, InProgress
  <2>3. QED
    BY <2>1, <2>2
<1>6. CASE Rename(w0)
  <2>1. CASE FailAfterOpen(w0)
    BY <2>1, SingleFail
  <2>2. CASE ~FailAfterOpen(w0)
    <3>1. /\ wpc[w0] = "rename" /\ dest' = temps[suffix[w0]]
          /\ wpc' = [wpc EXCEPT ![w0] = "done"] /\ UNCHANGED inodes
      BY <1>6, <2>2 DEF Rename, Return
    <3>2. temps[suffix[w0]] = fd[w0]
      BY <3>1 DEF SingleWriterInv, InProgress
    <3>3. inodes[fd[w0]].len = Size /\ inodes[fd[w0]].synced = Size
      BY <3>1 DEF IInv, CallFiles
    <3>4. QED
      BY <1>0, <3>1, <3>2, <3>3 DEF SingleWriterInv, InProgress
  <2>3. QED
    BY <2>1, <2>2
<1>7. CASE Crash
  <2>1. /\ inodes' = CrashInodes /\ wpc' = [v \in Writers |-> "idle"]
        /\ UNCHANGED dest
    BY <1>7 DEF Crash
  <2>2. dest # None => inodes'[dest].len = inodes[dest].synced
                       /\ inodes'[dest].synced = inodes[dest].synced
    BY <1>0, <2>1 DEF CrashInodes, IInv, InodesTyped
  <2>3. QED
    BY <1>0, <2>1, <2>2 DEF SingleWriterInv, InProgress
<1>8. CASE UNCHANGED vars
  BY <1>8 DEF vars, SingleWriterInv, InProgress
<1>9. QED
  BY <1>1, <1>2, <1>3, <1>4, <1>5, <1>6, <1>7, <1>8 DEF Next

\* With one writer, a reader of <path> sees the old contents or all Size
\* bytes of a call, also after a crash: rename() only installs a temp file
\* the loop wrote completely and fdatasync() made durable, and the loop
\* never writes the inode at <path>.  (With two writers a suffix collision
\* breaks this; see the atomic_write_suffix_collision run.)
THEOREM DestOldOrCompleteSingleWriter ==
  ASSUME NEW w0, Writers = {w0}
  PROVE  Spec => []DestOldOrComplete
<1> DEFINE SInv == IInv /\ SingleWriterInv(w0)
<1>1. Init => SInv
  BY IInvInit, SingleInit
<1>2. SInv /\ [Next]_vars => SInv'
  BY IInvNext, SingleNext
<1>3. SInv => DestOldOrComplete
  BY DEF SingleWriterInv, DestOldOrComplete
<1>4. QED
  BY <1>1, <1>2, <1>3, PTL DEF Spec

=============================================================================
