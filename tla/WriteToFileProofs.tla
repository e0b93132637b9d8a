-------------------------- MODULE WriteToFileProofs --------------------------
(***************************************************************************)
(* Proof, for every pair of widths IntBits <= SizeBits (the 64-bit and    *)
(* the 32-bit builds), that WriteToFile returns true only when the file   *)
(* holds all |size| bytes.                                                *)
(***************************************************************************)
EXTENDS WriteToFile, TLAPS

\* The inductive invariant: the types, the return values of calls not yet
\* made are false, and each true return value is backed by the file.
IInv ==
  /\ dir_exists \in BOOLEAN
  /\ file \in [exists : BOOLEAN, len : Nat, synced : Nat]
  /\ size \in SizeT
  /\ pc \in {"write", "sync", "done"}
  /\ write_ret \in BOOLEAN /\ sync_ret \in BOOLEAN
  /\ pc = "write" => ~write_ret
  /\ pc # "done" => ~sync_ret
  /\ write_ret => file.exists /\ file.len = size

\* static_cast<int> leaves a size in 0 .. INT_MAX as it is.
LEMMA CastSmall ==
  ASSUME NEW n \in 0 .. IntMax
  PROVE  CastToInt(n) = n
<1> DEFINE h == 2^(IntBits - 1)
<1>1. h \in Nat \ {0} /\ 2^IntBits = 2 * h
  BY PowersOfTwo
<1>2. n % 2^IntBits = n
  BY <1>1 DEF IntMax
<1>3. QED
  BY <1>1, <1>2 DEF CastToInt, IntMax

LEMMA IInvInit == Init => IInv
<1> SUFFICES ASSUME Init PROVE IInv
  OBVIOUS
<1>1. file \in [exists : BOOLEAN, len : Nat, synced : Nat]
  <2>1. CASE file = NoFile
    BY <2>1 DEF NoFile
  <2>2. CASE file = [exists |-> TRUE, len |-> 1, synced |-> 1]
    BY <2>2
  <2>3. QED
    BY <2>1, <2>2 DEF Init
<1>2. QED
  BY <1>1 DEF Init, IInv

LEMMA IInvNext == IInv /\ [Next]_vars => IInv'
<1> SUFFICES ASSUME IInv, [Next]_vars PROVE IInv'
  OBVIOUS
<1>1. CASE WriteToFile
  <2>1. CASE size > IntMax
    BY <1>1, <2>1 DEF WriteToFile, IInv
  <2>2. CASE size \in 0 .. IntMax
    <3>1. CastToInt(size) = size
      BY <2>2, CastSmall
    <3>2. ASSUME NEW r \in WriteFileResults(CastToInt(size))
          PROVE  /\ r.file \in [exists : BOOLEAN, len : Nat, synced : Nat]
                 /\ r.ret = CastToInt(size) => r.file.exists /\ r.file.len = size
      <4>1. CASE r = [ret |-> -1, file |-> file]
        BY <2>2, <3>1, <4>1 DEF IInv, IntMax
      <4>2. CASE r \in {[ret |-> IF k = size /\ close_ok THEN size ELSE -1,
                         file |-> [exists |-> TRUE, len |-> k, synced |-> file.synced]] :
                          k \in 0 .. size, close_ok \in BOOLEAN}
        <5>1. PICK k \in 0 .. size, close_ok \in BOOLEAN :
                r = [ret |-> IF k = size /\ close_ok THEN size ELSE -1,
                     file |-> [exists |-> TRUE, len |-> k, synced |-> file.synced]]
          BY <4>2
        <5>2. QED
          BY <2>2, <5>1, <3>1 DEF IInv
      <4>3. QED
        BY <2>2, <3>1, <4>1, <4>2 DEF WriteFileResults
    <3>3. QED
      BY <1>1, <3>2 DEF WriteToFile, IInv
  <2>3. QED
    BY <2>1, <2>2, PowersOfTwo DEF IInv, SizeT, IntMax
<1>2. CASE SyncFileOrDirectory
  BY <1>2 DEF SyncFileOrDirectory, IInv
<1>3. CASE UNCHANGED vars
  BY <1>3 DEF vars, IInv
<1>4. QED
  BY <1>1, <1>2, <1>3 DEF Next

\* WriteToFile's size check keeps a wrapped size from reporting success:
\* for every width, a true result means all |size| bytes are in the file.
THEOREM WriteReportsAllWrittenHolds == Spec => []WriteReportsAllWritten
<1>1. IInv => WriteReportsAllWritten
  BY DEF IInv, WriteReportsAllWritten
<1>2. QED
  BY <1>1, IInvInit, IInvNext, PTL DEF Spec

=============================================================================
