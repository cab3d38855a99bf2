------------------------------ MODULE Timelock ------------------------------
(***************************************************************************)
(* The timelock encoding of src/src/dto/timelock.cpp: a Timelock (based,   *)
(* type, value) is encoded by k() as the number of an after() (BIP65       *)
(* nLockTime) or older() (BIP68 nSequence) miniscript fragment, and        *)
(* FromK decodes such a number back into a Timelock.                       *)
(*                                                                         *)
(* The state is the Timelock the application holds and whether its last   *)
(* call threw; the operations are the constructor (which calls k() to      *)
(* validate), FromK, and reading back the fragment to_miniscript writes.   *)
(* The encoding is checked against a reference reading of BIP65 and BIP68  *)
(* written with arithmetic, not with the code's masks and shifts.          *)
(***************************************************************************)
EXTENDS Integers, Bitwise

CONSTANTS
  Values,   \* values the application passes to the constructor
  Ks        \* after()/older() numbers FromK is given

ASSUME Values \subseteq Nat /\ Ks \subseteq 0 .. 2147483647

VARIABLES
  lock,     \* the Timelock the application holds
  err       \* the last constructor or FromK call threw INVALID_PARAMETER

vars == <<lock, err>>

\* Constants of Bitcoin Core's script.h and primitives/transaction.h.
LOCKTIME_THRESHOLD == 500000000
SEQUENCE_LOCKTIME_TYPE_FLAG == 2^22
SEQUENCE_LOCKTIME_MASK == 65535
SEQUENCE_LOCKTIME_GRANULARITY == 9

Based == {"NONE", "TIME_LOCK", "HEIGHT_LOCK"}
Type == {"LOCKTYPE_ABSOLUTE", "LOCKTYPE_RELATIVE"}

\* Before the application builds one.
NoLock == [based |-> "NONE", type |-> "NONE", value |-> 0]

(***************************************************************************)
(* The code.                                                               *)
(***************************************************************************)
\* The constructor: a relative time lock below 512 seconds is raised to
\* 512; it then calls k(), whose exception escapes the constructor.
NewTimelock(b, t, v) ==
  [based |-> b, type |-> t,
   value |-> IF b = "TIME_LOCK" /\ t = "LOCKTYPE_RELATIVE" /\ v < 512 THEN 512 ELSE v]

\* The conditions under which k() throws INVALID_PARAMETER.
KThrows(l) ==
  IF l.type = "LOCKTYPE_ABSOLUTE"
  THEN \/ l.value < LOCKTIME_THRESHOLD /\ l.based = "TIME_LOCK"
       \/ l.value >= LOCKTIME_THRESHOLD /\ l.based = "HEIGHT_LOCK"
  ELSE \/ l.based = "TIME_LOCK" /\ (l.value < 0 \/ l.value >= 33554431)
       \/ l.based = "HEIGHT_LOCK" /\ (l.value < 0 \/ l.value >= 65535)

\* Mutant of k(): the relative time lock without the type flag.
KNoTypeFlag(l) ==
  CASE l.type = "LOCKTYPE_ABSOLUTE" -> l.value
    [] l.based = "TIME_LOCK" -> shiftR(l.value, SEQUENCE_LOCKTIME_GRANULARITY)
    [] l.based = "HEIGHT_LOCK" -> l.value & SEQUENCE_LOCKTIME_MASK
    [] OTHER -> 0

\* k(), where it does not throw.
K(l) ==
  CASE l.type = "LOCKTYPE_ABSOLUTE" -> l.value
    [] l.based = "TIME_LOCK" ->
         shiftR(l.value, SEQUENCE_LOCKTIME_GRANULARITY) | SEQUENCE_LOCKTIME_TYPE_FLAG
    [] l.based = "HEIGHT_LOCK" -> l.value & SEQUENCE_LOCKTIME_MASK
    [] OTHER -> 0

\* Mutant of FromK: the relative time value without the shift back.
FromKNoShift(is_absolute, k) ==
  LET time == (k & SEQUENCE_LOCKTIME_TYPE_FLAG) # 0
      b == IF is_absolute
           THEN IF k >= LOCKTIME_THRESHOLD THEN "TIME_LOCK" ELSE "HEIGHT_LOCK"
           ELSE IF time THEN "TIME_LOCK" ELSE "HEIGHT_LOCK"
      v == IF is_absolute THEN k ELSE k & SEQUENCE_LOCKTIME_MASK
  IN NewTimelock(IF v = 0 THEN "NONE" ELSE b,
                 IF is_absolute THEN "LOCKTYPE_ABSOLUTE" ELSE "LOCKTYPE_RELATIVE", v)

\* FromK: an absolute number at or above the threshold is a time; a
\* relative one is a time when the type flag is set, its masked value
\* shifted back by the granularity (no overflow: at most 2^25).  A zero
\* value is NONE.  The result is built by the constructor.
FromK(is_absolute, k) ==
  LET time == (k & SEQUENCE_LOCKTIME_TYPE_FLAG) # 0
      b == IF is_absolute
           THEN IF k >= LOCKTIME_THRESHOLD THEN "TIME_LOCK" ELSE "HEIGHT_LOCK"
           ELSE IF time THEN "TIME_LOCK" ELSE "HEIGHT_LOCK"
      v == CASE is_absolute -> k
             [] time -> (k & SEQUENCE_LOCKTIME_MASK) * 2^SEQUENCE_LOCKTIME_GRANULARITY
             [] OTHER -> k & SEQUENCE_LOCKTIME_MASK
  IN NewTimelock(IF v = 0 THEN "NONE" ELSE b,
                 IF is_absolute THEN "LOCKTYPE_ABSOLUTE" ELSE "LOCKTYPE_RELATIVE", v)

\* to_miniscript: after(k()) for an absolute lock, older(k()) otherwise.
ToMiniscript(l) ==
  [fragment |-> IF l.type = "LOCKTYPE_ABSOLUTE" THEN "after" ELSE "older",
   arg |-> K(l)]

(***************************************************************************)
(* Operations.                                                             *)
(***************************************************************************)
\* A call that builds l: it throws, leaving the held lock, or returns l.
Build(l) ==
  IF KThrows(l)
  THEN err' = TRUE /\ UNCHANGED lock
  ELSE lock' = l /\ err' = FALSE

\* Timelock(based, type, value).  NONE is built with value 0, the only NONE
\* lock FromK returns.
Construct(b, t, v) == Build(NewTimelock(b, t, v))

\* Timelock::FromK(is_absolute, k).
ParseK(is_absolute, k) == Build(FromK(is_absolute, k))

\* The application parses back the fragment to_miniscript wrote for the
\* lock it holds.
ParseMiniscript ==
  /\ lock # NoLock
  /\ LET m == ToMiniscript(lock) IN ParseK(m.fragment = "after", m.arg)

Init == lock = NoLock /\ err = FALSE

Next ==
  \/ \E b \in Based \ {"NONE"}, t \in Type, v \in Values : Construct(b, t, v)
  \/ \E t \in Type : Construct("NONE", t, 0)
  \/ \E a \in BOOLEAN, k \in Ks : ParseK(a, k)
  \/ ParseMiniscript

Spec == Init /\ [][Next]_vars

(***************************************************************************)
(* Reference: what a script number means to Bitcoin (BIP65, BIP68), read   *)
(* with arithmetic.  Numbers stay below 2^31, so the BIP68 disable flag is *)
(* never set.                                                              *)
(***************************************************************************)
NoneLock == [kind |-> "NONE", amount |-> 0]

\* The lock after(k) (absolute) or older(k) (relative) enforces: an
\* nLockTime below 500000000 is a height, else a time; an nSequence's low
\* 16 bits count blocks, or units of 512 seconds when bit 22 is set.
Enforced(is_absolute, k) ==
  IF is_absolute
  THEN IF k = 0 THEN NoneLock
       ELSE [kind |-> IF k < 500000000 THEN "HEIGHT_LOCK" ELSE "TIME_LOCK", amount |-> k]
  ELSE LET n == k % 65536
           time == (k \div 4194304) % 2 = 1
       IN IF n = 0 THEN NoneLock
          ELSE [kind |-> IF time THEN "TIME_LOCK" ELSE "HEIGHT_LOCK",
                amount |-> IF time THEN n * 512 ELSE n]

\* The lock a Timelock object describes, rounded down to what its unit can
\* express (a relative time counts whole 512-second units).
Described(l) ==
  IF l.based = "NONE" \/ l.value = 0 THEN NoneLock
  ELSE [kind |-> l.based,
        amount |-> IF l.type = "LOCKTYPE_RELATIVE" /\ l.based = "TIME_LOCK"
                   THEN (l.value \div 512) * 512 ELSE l.value]

IsAbsolute(l) == l.type = "LOCKTYPE_ABSOLUTE"

(***************************************************************************)
(* Properties.                                                             *)
(***************************************************************************)
TypeOK ==
  /\ lock \in [based : Based, type : Type \cup {"NONE"}, value : Nat]
  /\ err \in BOOLEAN

\* Every lock the constructor or FromK accepted has a k() whose meaning to
\* Bitcoin is the lock the object describes: the right kind (height or
\* time), the value for heights and absolute times, and the value rounded
\* down to 512 seconds for relative times.
KEncodesValue ==
  lock # NoLock => Enforced(IsAbsolute(lock), K(lock)) = Described(lock)

\* Reading back the fragment of any accepted lock never throws, and the
\* Timelock FromK returns describes exactly what the fragment enforces:
\* to_miniscript and FromK round-trip the enforced lock.
MiniscriptRoundTrip ==
  lock # NoLock =>
    LET p == FromK(IsAbsolute(lock), K(lock))
    IN ~KThrows(p) /\ Described(p) = Enforced(IsAbsolute(lock), K(lock))

====
