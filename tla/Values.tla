------------------------------ MODULE Values ------------------------------
(* The data types of the Orchids language (lang.c, lang.h): the table      *)
(* issdl_types_g of the handlers of each type, its arithmetic and its       *)
(* comparisons, over machine words of LongBits bits (long) and IntBits bits *)
(* (int).                                                                   *)
(*                                                                          *)
(* A value is a record of its type and its contents.  A text is a sequence  *)
(* of character codes.  A handler that returns NULL returns NoVar.  An      *)
(* operation the C language leaves undefined has a SET of outcomes; the     *)
(* outcome Crash is the end of the process.                                 *)
EXTENDS Integers, Sequences, FiniteSets

CONSTANTS LongBits,      \* the width of a long and of a time_t
          IntBits,       \* the width of an int
          USecs          \* microseconds in a second (1000000 in the code)

ASSUME WordAssumption ==
    /\ LongBits \in Nat /\ IntBits \in Nat /\ IntBits > 1
    /\ LongBits >= IntBits
    /\ USecs \in Nat \ {0}

NoVar == [type |-> "none", val |-> 0]
Crash == [type |-> "crash", val |-> 0]

\* The order of the types in issdl_types_g, which is the value of T_...
TypeNumber ==
    [null |-> 0, fnct |-> 1, int |-> 2, bstr |-> 3, vbstr |-> 4, str |-> 5,
     vstr |-> 6, array |-> 7, hash |-> 8, ctime |-> 9, ipv4 |-> 10,
     timeval |-> 11, counter |-> 12, regex |-> 13, sregex |-> 14,
     ptr32 |-> 15, uint |-> 16, snmpoid |-> 17, float |-> 18, double |-> 19,
     extern |-> 20]

Words == 0 .. 2 ^ LongBits - 1

\* What a long, an unsigned long and an int keep of an integer.
Unsigned(n) == n % 2 ^ LongBits
Narrow(n, bits) ==
    LET w == n % 2 ^ bits
    IN  IF w < 2 ^ (bits - 1) THEN w ELSE w - 2 ^ bits
Signed(n) == Narrow(n, LongBits)
ToInt(n)  == Narrow(n, IntBits)

\* The division of C truncates towards zero.
Abs(n) == IF n < 0 THEN -n ELSE n
CDiv(m, n) == LET q == Abs(m) \div Abs(n)
              IN  IF (m < 0) = (n < 0) THEN q ELSE -q
CMod(m, n) == m - n * CDiv(m, n)

ovm_int(n)       == [type |-> "int", val |-> Signed(n)]
ovm_uint(n)      == [type |-> "uint", val |-> Unsigned(n)]
ovm_counter(n)   == [type |-> "counter", val |-> Unsigned(n)]
ovm_ctime(n)     == [type |-> "ctime", val |-> Signed(n)]
ovm_timeval(s, u) == [type |-> "timeval", val |-> <<Signed(s), u>>]
ovm_float(n)     == [type |-> "float", val |-> n]
ovm_str(s)       == [type |-> "str", val |-> s]
ovm_vstr(s)      == [type |-> "vstr", val |-> s]
ovm_null(e)      == [type |-> "null", val |-> e]

Numbers == {"int", "uint", "counter", "ctime"}
Texts   == {"str", "vstr"}
Compared == Numbers \cup {"timeval", "ipv4", "float"}

\* UINT(v): the word that follows the header of a value, whatever its type.
WordOf(v) ==
    CASE v.type \in Numbers  -> {Unsigned(v.val)}
      [] v.type \in Texts    -> {Len(v.val)}
      [] v.type = "timeval"  -> {Unsigned(v.val[1])}
      [] OTHER               -> Words
---------------------------------------------------------------------------
(* Arithmetic, one operator per type of the left operand.                   *)

Apply(op, m, n) ==
    CASE op = "add" -> m + n
      [] op = "sub" -> m - n
      [] op = "mul" -> m * n
      [] op = "div" -> CDiv(m, n)
      [] op = "mod" -> CMod(m, n)

Divides(op) == op \in {"div", "mod"}

\* int_add() .. int_mod(): the operands must be two ints, the divisor not 0.
IntArith(op, a, b) ==
    IF b.type # "int" \/ (Divides(op) /\ b.val = 0)
    THEN {NoVar} ELSE {ovm_int(Apply(op, a.val, b.val))}

\* uint_add() and uint_mul() test the type of the right operand.  uint_sub(),
\* uint_div() and uint_mod() refuse it only when its type AND its value are
\* wrong, and go on with the word that is there.
UIntArith(op, a, b) ==
    IF op \in {"add", "mul"}
    THEN IF b.type # "uint" THEN {NoVar} ELSE {ovm_uint(Apply(op, a.val, b.val))}
    ELSE { IF b.type # "uint" /\ (IF op = "sub" THEN a.val > w ELSE w > 0)
           THEN NoVar
           ELSE IF Divides(op) /\ w = 0
           THEN Crash ELSE ovm_uint(Apply(op, a.val, w)) : w \in WordOf(b) }

\* counter_add() and counter_mul(); no other operation applies to a counter.
CounterArith(op, a, b) ==
    IF /\ op \in {"add", "mul"} /\ b.type \in {"int", "counter"}
       /\ op = "mul" => b.val > 0
    THEN {ovm_counter(Apply(op, a.val, b.val))} ELSE {NoVar}

\* ctime_add() .. ctime_mod().
CTimeArith(op, a, b) ==
    IF b.type \in {"ctime", "int"} /\ (Divides(op) => b.val # 0)
    THEN {ovm_ctime(Apply(op, a.val, b.val))} ELSE {NoVar}

\* timeval_add() .. timeval_mod(): two times are added or subtracted with a
\* carry (Timer_Add, Timer_Sub), a number changes the seconds only.
TimeValArith(op, a, b) ==
    LET s == a.val[1]
        u == a.val[2]
    IN  CASE b.type = "timeval" /\ op = "add" ->
               {ovm_timeval(s + b.val[1] + (u + b.val[2]) \div USecs,
                        (u + b.val[2]) % USecs)}
          [] b.type = "timeval" /\ op = "sub" ->
               {IF u < b.val[2] THEN ovm_timeval(s - b.val[1] - 1, USecs + u - b.val[2])
                                ELSE ovm_timeval(s - b.val[1], u - b.val[2])}
          [] b.type \in {"ctime", "int"} /\ (Divides(op) => b.val # 0) ->
               {ovm_timeval(Apply(op, s, b.val), u)}
          [] OTHER -> {NoVar}

\* float_add() .. float_div() on whole numbers of the unit in the last place,
\* and no float_mod(); a product and a quotient are some float.
FloatArith(op, a, b) ==
    IF b.type # "float" \/ op = "mod" \/ (op = "div" /\ b.val = 0) THEN {NoVar}
    ELSE IF op \in {"mul", "div"} THEN {ovm_float(n) : n \in Words}
    ELSE {ovm_float(Apply(op, a.val, b.val))}

\* str_add().
StrAdd(a, b) == IF b.type \in Texts THEN {ovm_str(a.val \o b.val)} ELSE {NoVar}

\* vstr_add() copies two virtual strings through the pointer of a virtual
\* string, which the new string does not have.
VStrAdd(a, b) ==
    IF b.type \notin Texts THEN {NoVar}
    ELSE IF b.type = "vstr" /\ Len(a.val) + Len(b.val) > 0
    THEN {Crash} ELSE {ovm_str(a.val \o b.val)}

\* issdl_add() .. issdl_mod(): the handler of the left operand's type, if any.
issdl_arith(op, a, b) ==
    CASE a.type = "int"      -> IntArith(op, a, b)
      [] a.type = "uint"     -> UIntArith(op, a, b)
      [] a.type = "counter"  -> CounterArith(op, a, b)
      [] a.type = "ctime"    -> CTimeArith(op, a, b)
      [] a.type = "timeval"  -> TimeValArith(op, a, b)
      [] a.type = "float"    -> FloatArith(op, a, b)
      [] a.type = "str" /\ op = "add"  -> StrAdd(a, b)
      [] a.type = "vstr" /\ op = "add" -> VStrAdd(a, b)
      [] OTHER -> {NoVar}
---------------------------------------------------------------------------
(* Comparison and truth.                                                    *)

\* memcmp() of the first n characters; -1, 0 or 1.
MemCmp(s, t, n) ==
    LET d == {i \in 1 .. n : s[i] # t[i]}
    IN  IF d = {} THEN 0
        ELSE LET i == CHOOSE i \in d : \A j \in d : i <= j
             IN  IF s[i] < t[i] THEN -1 ELSE 1

\* The left operand decides how many characters are compared.  A right
\* operand that is shorter is read past its end: a str is followed by a NUL,
\* a vstr by the rest of the text it points into.
PrefixCmp(s, b) ==
    LET n == IF Len(s) <= Len(b.val) THEN Len(s) ELSE Len(b.val)
        c == MemCmp(s, b.val, n)
    IN  IF c # 0 \/ n = Len(s) THEN {c}
        ELSE IF b.type = "str" THEN {1} ELSE {-1, 0, 1}
TypeDiff(a, b) == TypeNumber[a.type] - TypeNumber[b.type]

\* str_cmp() and vstr_cmp().
StrCmp(a, b)  == IF b.type \in Texts THEN PrefixCmp(a.val, b) ELSE {TypeDiff(a, b)}
VStrCmp(a, b) == IF b.type \in Texts THEN PrefixCmp(a.val, b) ELSE {TypeDiff(a, b)}

\* timeval_cmp().
TimeValCmp(a, b) ==
    LET lt(x, y) == x[1] < y[1] \/ (x[1] = y[1] /\ x[2] < y[2])
    IN  IF lt(a.val, b.val) THEN -1 ELSE IF lt(b.val, a.val) THEN 1 ELSE 0

\* int_cmp(), uint_cmp(), counter_cmp(), ctime_cmp() and ipv4_cmp() return
\* the difference as an int.
IntCmp(a, b)   == ToInt(a.val - b.val)
FloatCmp(a, b) == IF a.val > b.val THEN 1 ELSE IF a.val < b.val THEN -1 ELSE 0

\* issdl_cmp(): the handler of the left operand's type.
issdl_cmp(a, b) ==
    CASE a.type = "str"  -> StrCmp(a, b)
      [] a.type = "vstr" -> VStrCmp(a, b)
      [] a.type \in Compared /\ b.type # a.type -> {TypeDiff(a, b)}
      [] a.type \in Numbers \cup {"ipv4"} /\ b.type = a.type -> {IntCmp(a, b)}
      [] a.type = "float" /\ b.type = a.type -> {FloatCmp(a, b)}
      [] a.type = "timeval" /\ b.type = a.type -> {TimeValCmp(a, b)}
      [] OTHER -> {-1}

\* issdl_test(): the truth of a value, an int.
issdl_test(v) ==
    CASE v.type \in {"none", "null"} -> FALSE
      [] v.type \in {"int", "uint"}  -> ToInt(v.val) # 0
      [] OTHER -> TRUE

\* IS_NULL(x).
IsNull(v) == v.type \in {"none", "null"}
===========================================================================
