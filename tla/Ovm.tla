------------------------------- MODULE Ovm -------------------------------
(* The virtual machine (ovm.c): the actions of the states of one path of a  *)
(* rule instance and the conditions of its transitions, compiled by         *)
(* RuleCompiler and executed one instruction at a time, and the release of  *)
(* the instance (free_rule_instance(), engine.c).                           *)
(*                                                                          *)
(* A variable of the language is a pointer to a value in the heap; 0 is     *)
(* NULL.  A cell of the heap keeps the value, the flags TYPE_CANFREE and    *)
(* TYPE_NOTBOUND, how often it was freed, and (history) whether it was a    *)
(* temporary value that a conditional jump took from the stack.             *)
EXTENDS RuleCompiler, FiniteSetsExt, Bitwise, TLC

CONSTANTS Vars,          \* the numbers of the variables of the rule
          Literals,      \* its constants, after BaseStatics
          Events,        \* fields of the current event, NoVar if absent
          Programs,      \* the lists of actions a state may have
          Conditions,    \* the conditions of transitions
          MaxStates      \* length of the path of state instances

ASSUME OvmAssumption ==
    /\ Vars \subseteq Nat
    /\ MaxStates \in Nat \ {0}

VARIABLES fields,    \* ctx->global_fields, by the current event
          prog,      \* the actions or the condition under execution
          code,      \* its byte code
          ip,        \* the instruction pointer
          stack,     \* ctx->ovm_stack
          heap,      \* every value that was allocated
          path,      \* current_env of the state instances, the current one last
          inherit,   \* inherit_env of the current state instance
          sigma,     \* the inherited values by the meaning of the rule
          meant,     \* what the code under execution should do
          phase      \* "run", "eval", "stop", "match", "nomatch", "freed", "crash"

vars == <<fields, prog, code, ip, stack, heap, path, inherit, sigma, meant,
          phase>>

Statics == BaseStatics \o Literals
FieldRef(f) == IF fields[f + 1] = NoVar THEN 0 ELSE Len(Statics) + f + 1
StaticRef(r) == r + 1
NULL_VAR  == StaticRef(NullRes)
TRUE_VAR  == StaticRef(TrueRes)
FALSE_VAR == StaticRef(FalseRes)
PARAM_ERROR_VAR == StaticRef(ParamErrorRes)

Cell(v, free) == [val |-> v, canfree |-> free, notbound |-> free,
                  frees |-> 0, tested |-> FALSE]
Unbound == [x \in Vars |-> 0]
env == path[Len(path)]

---------------------------------------------------------------------------
(* The stack and the heap.                                                  *)

\* stack_pop() of an empty stack is NULL.
Top(s) == IF s = <<>> THEN 0 ELSE s[Len(s)]
Pop(s) == IF s = <<>> THEN <<>> ELSE SubSeq(s, 1, Len(s) - 1)

ValueOf(h, r) == IF r = 0 THEN NoVar ELSE h[r].val
IsNullRef(r)  == IsNull(ValueOf(heap, r))
IsNotBound(h, r) == r # 0 /\ h[r].canfree /\ h[r].notbound
Free(h, r) == [h EXCEPT ![r].frees = @ + 1]

\* The mutant frees bound values, too.
FreeIfNeededAny(h, r) == IF r # 0 /\ h[r].canfree THEN Free(h, r) ELSE h

\* FREE_IF_NEEDED().
FreeIfNeeded(h, r) == IF IsNotBound(h, r) THEN Free(h, r) ELSE h
\* if (var && CAN_FREE_VAR(var)) Xfree(var).
FreeIfCan(h, r) == IF r # 0 /\ h[r].canfree THEN Free(h, r) ELSE h

Op  == code[ip + 1].op
Arg == code[ip + 2].arg

\* The next instruction: ip += n.
Advance(n) == ip' = ip + n /\ UNCHANGED phase
Continue == UNCHANGED <<fields, prog, code, inherit, sigma, meant>>

Crashes ==
    /\ phase' = "crash"
    /\ UNCHANGED <<ip, stack, heap, path>>
---------------------------------------------------------------------------
(* The instructions.                                                        *)

OpPush ==
    /\ Op = "push"
    /\ stack' = Append(stack, IF env[Arg] # 0 THEN env[Arg]
                              ELSE IF inherit[Arg] # 0 THEN inherit[Arg]
                              ELSE NULL_VAR)
    /\ Advance(2) /\ UNCHANGED <<heap, path>>

OpPop ==
    LET r == Top(stack)
        h == FreeIfCan(heap, env[Arg])
    IN  /\ Op = "pop"
        /\ stack' = Pop(stack)
        /\ path' = [path EXCEPT ![Len(path)][Arg] = r]
        /\ heap' = IF r = 0 THEN h ELSE [h EXCEPT ![r].notbound = FALSE]
        /\ Advance(2)

OpTrash ==
    /\ Op = "trash"
    /\ stack' = Pop(stack)
    /\ heap' = FreeIfCan(heap, Top(stack))
    /\ Advance(1) /\ UNCHANGED path

OpPushStatic ==
    /\ Op = "pushstatic"
    /\ stack' = Append(stack, StaticRef(Arg))
    /\ Advance(2) /\ UNCHANGED <<heap, path>>

OpPushField ==
    /\ Op = "pushfield"
    /\ stack' = Append(stack, FieldRef(Arg))
    /\ Advance(2) /\ UNCHANGED <<heap, path>>

\* ovm_add() .. ovm_mod().  The flags of a NULL operand are read.
OpArith ==
    LET op2 == Top(stack)
        op1 == Top(Pop(stack))
        rest == Pop(Pop(stack))
        Done(h, r) == /\ stack' = Append(rest, r)
                      /\ heap' = FreeIfNeeded(FreeIfNeeded(h, op1), op2)
                      /\ Advance(1) /\ UNCHANGED path
    IN  /\ Op \in {"add", "sub", "mul", "div", "mod"}
        /\ \/ (op1 = 0 \/ op2 = 0) /\ Crashes
           \/ /\ op1 # 0 /\ op2 # 0
              /\ IsNullRef(op1) \/ IsNullRef(op2)
              /\ Done(heap, NULL_VAR)
           \/ /\ ~IsNullRef(op1) /\ ~IsNullRef(op2)
              /\ \E r \in issdl_arith(Op, heap[op1].val, heap[op2].val) :
                   CASE r = Crash -> Crashes
                     [] r = NoVar -> Done(heap, NULL_VAR)
                     [] OTHER -> Done(Append(heap, Cell(r, TRUE)), Len(heap) + 1)

Holds(op, d) == CASE op = "ceq" -> d = 0 [] op = "cneq" -> d # 0
                  [] op = "clt" -> d < 0 [] op = "cgt" -> d > 0
                  [] op = "cle" -> d <= 0 [] op = "cge" -> d >= 0

\* ovm_ceq() pops its operands in the other order than ovm_cneq(), ovm_clt(),
\* ovm_cgt(), ovm_cle() and ovm_cge(), and compares them in that order.
Operands == IF Op = "ceq" THEN <<Top(stack), Top(Pop(stack))>>
                          ELSE <<Top(Pop(stack)), Top(stack)>>

OpCompare ==
    LET op1 == Operands[1]
        op2 == Operands[2]
    IN  /\ Op \in Comparisons \ {"crm", "cnrm"}
        /\ \E r \in IF IsNullRef(op1) \/ IsNullRef(op2) THEN {NULL_VAR}
                    ELSE {IF Holds(Op, d) THEN TRUE_VAR ELSE FALSE_VAR :
                            d \in issdl_cmp(heap[op1].val, heap[op2].val)} :
             stack' = Append(Pop(Pop(stack)), r)
        /\ heap' = FreeIfNeeded(FreeIfNeeded(heap, op1), op2)
        /\ Advance(1) /\ UNCHANGED path

\* ovm_crm() and ovm_cnrm(): a regular expression is the set of the texts
\* that it matches.
OpMatch ==
    LET regex == Top(stack)
        text  == Top(Pop(stack))
        m == heap[text].val.val \in heap[regex].val.val
        r == IF IsNullRef(regex) \/ IsNullRef(text) THEN NULL_VAR
             ELSE IF \/ heap[regex].val.type # "regex"
                     \/ heap[text].val.type \notin Texts THEN PARAM_ERROR_VAR
             ELSE IF m = (Op = "crm") THEN TRUE_VAR ELSE FALSE_VAR
    IN  /\ Op \in {"crm", "cnrm"}
        /\ stack' = Append(Pop(Pop(stack)), r)
        /\ heap' = FreeIfNeeded(FreeIfNeeded(heap, regex), text)
        /\ Advance(1) /\ UNCHANGED path

\* ovm_regsplit(): the groups of the match are pushed, the first one last.
\* A split expression maps the texts that it matches to their groups.  The
\* new strings have no flag.
OpRegSplit ==
    LET pat  == Top(stack)
        text == Top(Pop(stack))
        p    == ValueOf(heap, pat)
        t    == ValueOf(heap, text)
        g    == IF p.type = "sregex" /\ t.type = "str" /\ t.val \in DOMAIN p.val
                THEN p.val[t.val] ELSE <<>>
        n    == Len(g)
    IN  /\ Op = "regsplit"
        /\ stack' = Pop(Pop(stack)) \o [i \in 1 .. n |-> Len(heap) + n + 1 - i]
        /\ heap' = FreeIfNeeded(FreeIfNeeded(
                     heap \o [i \in 1 .. n |-> Cell(ovm_str(g[i]), FALSE)],
                     pat), text)
        /\ Advance(1) /\ UNCHANGED path

\* The mutant jumps from the instruction, not from its end.
OpJmpFromStart ==
    /\ Op = "jmp"
    /\ Advance(Arg)
    /\ UNCHANGED <<stack, heap, path>>

OpJmp ==
    /\ Op = "jmp"
    /\ Advance(Arg + 2)
    /\ UNCHANGED <<stack, heap, path>>

\* ovm_popcjmp() and the end of ovm_exec() drop the value that they test.
Tested(h, r) == IF IsNotBound(h, r) THEN [h EXCEPT ![r].tested = TRUE] ELSE h

OpPopCJmp ==
    LET r == Top(stack)
    IN  /\ Op = "popcjmp"
        /\ stack' = Pop(stack)
        /\ heap' = Tested(heap, r)
        /\ Advance(IF issdl_test(ValueOf(heap, r)) THEN Arg + 2 ELSE 2)
        /\ UNCHANGED path

\* ovm_flush() pops up to the first NULL, and frees the temporary values.
Flushed(s) ==
    LET n == {i \in DOMAIN s : s[i] = 0}
    IN  IF n = {} THEN <<>> ELSE SubSeq(s, 1, Max(n) - 1)
Flush(s, h) ==
    /\ stack' = Flushed(s)
    /\ heap' = [r \in DOMAIN h |->
                  IF /\ IsNotBound(h, r)
                     /\ \E i \in DOMAIN s : i > Len(Flushed(s)) /\ s[i] = r
                  THEN [h[r] EXCEPT !.frees = @ + 1] ELSE h[r]]
    /\ UNCHANGED <<ip, path>>

\* The value that ovm_exec() tests: a match is an int that is not 0.
IsMatch(v) == v.type = "int" /\ v.val # 0

\* An operator that is no opcode (the tokens && and ||): the stack is
\* flushed and the rest is not executed.
UnknownOpcode ==
    /\ Op \in {"andand", "oror"}
    /\ Flush(stack, heap)
    /\ phase' = IF phase = "eval" THEN "nomatch" ELSE "stop"

\* The end of ovm_exec(): the result is popped, the stack flushed.
OpEnd ==
    /\ Op = "end"
    /\ Flush(Pop(stack), Tested(heap, Top(stack)))
    /\ phase' = IF phase = "run" THEN "stop"
                ELSE IF IsMatch(ValueOf(heap, Top(stack))) THEN "match" ELSE "nomatch"
---------------------------------------------------------------------------
(* Built-in functions (lang.c).  The parameters of a call are constants,    *)
(* variables and fields (issdl.y), never temporary values.                  *)

RECURSIVE Digits(_), Number(_)

\* snprintf("%li") and atoi().
Digits(n) == IF n < 10 THEN <<48 + n>> ELSE Digits(n \div 10) \o <<48 + (n % 10)>>
TextOfInt(n) == IF n < 0 THEN <<45>> \o Digits(-n) ELSE Digits(n)
Number(t) == IF t = <<>> THEN 0 ELSE 10 * Number(SubSeq(t, 1, Len(t) - 1))
                                     + t[Len(t)] - 48
IsDigit(c) == c \in 48 .. 57
atoi(t) ==
    LET neg == t # <<>> /\ t[1] = 45
        u   == IF neg THEN Tail(t) ELSE t
        n   == CHOOSE k \in 0 .. Len(u) :
                 /\ \A i \in 1 .. k : IsDigit(u[i])
                 /\ k < Len(u) => ~IsDigit(u[k + 1])
        v   == Number(SubSeq(u, 1, n))
    IN  ToInt(IF neg THEN -v ELSE v)

\* issdl_bytedist(): texts of the same type and length.
ByteDist(s, t) == Cardinality({i \in DOMAIN s : s[i] # t[i]})

\* issdl_bindist(): the bits of the exclusive or, byte by byte.
Bits(n) == Cardinality({k \in 0 .. 7 : (n \div 2 ^ k) % 2 = 1})
BitDist(s, t) == MapThenSumSet(LAMBDA i : Bits(s[i] ^^ t[i]), DOMAIN s)

\* A value of rand(), and of a time that is read from a value of another type;
\* the source text of a regular expression.
Rand == 1
RegexText == <<40>>

\* What a function does: how many values it takes from the stack, whether it
\* reads one through a NULL pointer, and what it pushes: a value of the static
\* environment, a new temporary value, a new value without flags, or nothing.
Pushes(n, kind, x) == [pops |-> n, kind |-> kind, x |-> x]
ReturnTrue(n)  == Pushes(n, "static", TrueRes)
ReturnFalse(n) == Pushes(n, "static", FalseRes)
Reads(v, n, r) == IF v.type = "none" THEN Pushes(n, "crash", 0) ELSE r

issdl_noop == Pushes(0, "nothing", 0)
issdl_print == ReturnTrue(1)
issdl_dumpstack == ReturnTrue(0)
issdl_printevent == ReturnTrue(0)
issdl_system == ReturnTrue(1)
issdl_stats == ReturnTrue(0)
issdl_random == Pushes(0, "plain", ovm_int(Rand))
issdl_defined(a) == IF IsNull(a) THEN ReturnFalse(1) ELSE ReturnTrue(1)

\* The parent of the fork() goes on; the mail is written by the child.
issdl_sendmail == ReturnTrue(4)
\* The whole path is walked for the mail; the parent goes on.
issdl_sendmail_report == ReturnTrue(4)

\* event_level is written here and read nowhere.
HasEvent == Len(path) > 1
issdl_drop_event == IF HasEvent THEN ReturnTrue(0) ELSE ReturnFalse(0)
issdl_set_event_level(a) ==
    IF ~HasEvent THEN ReturnFalse(1)
    ELSE Reads(a, 1, IF a.type = "int" THEN ReturnTrue(1) ELSE ReturnFalse(1))

issdl_str_from_int(a) ==
    Reads(a, 1, Pushes(1, "temp", ovm_str(IF a.type = "int" THEN TextOfInt(a.val)
                                                            ELSE <<>>)))
issdl_int_from_str(a) ==
    Reads(a, 1, IF a.type = "str" THEN Pushes(1, "plain", ovm_int(atoi(a.val)))
                                  ELSE ReturnFalse(1))

\* The text of an address or of a time.
SomeText == <<63>>
issdl_str_from_ipv4(a) ==
    Reads(a, 1, IF a.type = "ipv4" THEN Pushes(1, "temp", ovm_str(SomeText))
                                   ELSE ReturnFalse(1))
issdl_str_from_time(a) ==
    Reads(a, 1, IF a.type = "ctime" THEN Pushes(1, "temp", ovm_str(SomeText))
                                    ELSE Pushes(1, "nothing", 0))

\* Distances are of values of the same type and length; a distance of numbers
\* is that of their bytes.
Distance(a, b, d) ==
    Reads(a, 2, Reads(b, 2,
      IF a.type = b.type /\ a.type \in Texts /\ Len(a.val) = Len(b.val)
      THEN Pushes(2, "temp", ovm_int(d)) ELSE Pushes(2, "nothing", 0)))
issdl_bindist(a, b)  == Distance(a, b, BitDist(a.val, b.val))
issdl_bytedist(a, b) == Distance(a, b, ByteDist(a.val, b.val))

issdl_difftime(a, b) ==
    Reads(a, 2, Reads(b, 2,
      IF (TypeNumber[a.type] & TypeNumber[b.type]) = TypeNumber["ctime"]
      THEN Pushes(2, "plain", ovm_int(IF a.type = "ctime" /\ b.type = "ctime"
                                      THEN a.val - b.val ELSE Rand))
      ELSE ReturnFalse(2)))

issdl_vstr_from_regex(a) ==
    Reads(a, 1, IF a.type = "regex" THEN Pushes(1, "plain", ovm_vstr(RegexText))
                                    ELSE Pushes(1, "nothing", 0))
issdl_str_from_regex(a) ==
    Reads(a, 1, IF a.type = "regex" THEN Pushes(1, "plain", ovm_str(RegexText))
                                    ELSE Pushes(1, "nothing", 0))
issdl_regex_from_str(a) ==
    Reads(a, 1, IF a.type \in Texts
                THEN Pushes(1, "plain", [type |-> "regex", val |-> {a.val}])
                ELSE Pushes(1, "nothing", 0))

\* The table of the functions; a and b are the first two parameters.
BuiltIn(f, a, b) ==
    CASE f = "noop"        -> issdl_noop
      [] f = "print"       -> issdl_print
      [] f = "dump_stack"  -> issdl_dumpstack
      [] f = "print_event" -> issdl_printevent
      [] f = "drop_event"  -> issdl_drop_event
      [] f = "set_event_level" -> issdl_set_event_level(a)
      [] f = "random"      -> issdl_random
      [] f = "system"      -> issdl_system
      [] f = "show_stats"  -> issdl_stats
      [] f = "str_from_int"  -> issdl_str_from_int(a)
      [] f = "int_from_str"  -> issdl_int_from_str(a)
      [] f = "str_from_ipv4" -> issdl_str_from_ipv4(a)
      [] f = "sendmail"      -> issdl_sendmail
      [] f = "sendmail_report" -> issdl_sendmail_report
      [] f = "bitdist"  -> issdl_bindist(a, b)
      [] f = "bytedist" -> issdl_bytedist(a, b)
      [] f = "vstr_from_regex" -> issdl_vstr_from_regex(a)
      [] f = "str_from_regex"  -> issdl_str_from_regex(a)
      [] f = "regex_from_str"  -> issdl_regex_from_str(a)
      [] f = "defined"  -> issdl_defined(a)
      [] f = "difftime" -> issdl_difftime(a, b)
      [] f = "str_from_time" -> issdl_str_from_time(a)

\* ovm_call().
OpCall ==
    LET r == BuiltIn(Arg, ValueOf(heap, Top(stack)), ValueOf(heap, Top(Pop(stack))))
        rest == SubSeq(stack, 1, Len(stack) - r.pops)
    IN  /\ Op = "call"
        /\ \/ r.kind = "crash" /\ Crashes
           \/ /\ r.kind # "crash"
              /\ stack' = CASE r.kind = "nothing" -> rest
                            [] r.kind = "static" -> Append(rest, StaticRef(r.x))
                            [] OTHER -> Append(rest, Len(heap) + 1)
              /\ heap' = IF r.kind \in {"temp", "plain"}
                         THEN Append(heap, Cell(r.x, r.kind = "temp")) ELSE heap
              /\ Advance(2) /\ UNCHANGED path
---------------------------------------------------------------------------
(* The meaning of a list of actions, on the values of the variables.        *)

RECURSIVE Eval(_, _, _), Exec(_, _, _), ExecStmt(_, _, _)

NullVal == BaseStatics[NullRes + 1]
Truth(b) == ovm_int(IF b THEN 1 ELSE 0)

\* The result of an operator that has one; null otherwise.
MeansArith(op, a, b) ==
    IF IsNull(a) \/ IsNull(b) THEN NullVal
    ELSE LET r == CHOOSE r \in issdl_arith(op, a, b) : TRUE
         IN  IF r = NoVar THEN NullVal ELSE r

\* Values of one kind are ordered: texts lexically, numbers by size; values
\* of different kinds by the numbers of their types.
Kind(v) == IF v.type \in Texts THEN "str" ELSE v.type
Same(a, b) == Kind(a) = Kind(b) /\ a.val = b.val
Less(a, b) ==
    IF Kind(a) # Kind(b) THEN TypeNumber[a.type] < TypeNumber[b.type]
    ELSE IF a.type \notin Texts \cup {"timeval"} THEN a.val < b.val
    ELSE LET s == a.val
             t == b.val
         IN  \/ Len(s) < Len(t) /\ SubSeq(t, 1, Len(s)) = s
             \/ \E i \in DOMAIN s \cap DOMAIN t :
                  s[i] < t[i] /\ SubSeq(s, 1, i - 1) = SubSeq(t, 1, i - 1)

MeansCompare(op, a, b) ==
    IF IsNull(a) \/ IsNull(b) THEN NullVal
    ELSE IF op \in {"crm", "cnrm"}
    THEN IF b.type # "regex" \/ a.type \notin Texts
         THEN BaseStatics[ParamErrorRes + 1]
         ELSE Truth((a.val \in b.val) = (op = "crm"))
    ELSE Truth(CASE op = "ceq"  -> Same(a, b)
                 [] op = "cneq" -> ~Same(a, b)
                 [] op = "clt"  -> Less(a, b)
                 [] op = "cgt"  -> Less(b, a)
                 [] op = "cle"  -> ~Less(b, a)
                 [] op = "cge"  -> ~Less(a, b))

\* A variable that the state has not bound has the value it inherits.
Lookup(s, inh, x) == IF s[x] # NoVar THEN s[x] ELSE inh[x]
Read(s, inh, x) == IF Lookup(s, inh, x) = NoVar THEN NullVal ELSE Lookup(s, inh, x)

\* The value of an expression and the variables after its assignments.
Result(v, s) == [val |-> v, env |-> s]
Eval(e, s, inh) ==
    CASE e.node = "const"    -> Result(Statics[e.res + 1], s)
      [] e.node = "variable" -> Result(Read(s, inh, e.res), s)
      [] e.node = "field"    -> Result(fields[e.res + 1], s)
      [] e.node = "assoc"    ->
           LET r == Eval(e.rval, s, inh)
               u == [r.env EXCEPT ![e.res] = r.val]
           IN  Result(Read(u, inh, e.res), u)
      [] e.node = "binop"    ->
           LET l == Eval(e.lval, s, inh)
               r == Eval(e.rval, l.env, inh)
           IN  Result(MeansArith(e.op, l.val, r.val), r.env)
      [] e.node = "cond" /\ e.op \in Comparisons ->
           LET l == Eval(e.lval, s, inh)
               r == Eval(e.rval, l.env, inh)
               v == MeansCompare(e.op, l.val, r.val)
           IN  Result(Truth(issdl_test(v)), r.env)
      [] e.node = "cond" /\ e.op \in {"andand", "oror"} ->
           LET l == Eval(e.lval, s, inh)
               r == Eval(e.rval, l.env, inh)
           IN  IF issdl_test(l.val) = (e.op = "oror")
               THEN Result(Truth(e.op = "oror"), l.env)
               ELSE Result(Truth(issdl_test(r.val)), r.env)
      [] e.node = "call"     ->
           LET v(i) == IF i > Len(e.params) THEN NoVar
                       ELSE Eval(e.params[i], s, inh).val
               r == BuiltIn(e.res, v(1), v(2))
           IN  Result(CASE r.kind = "static" -> Statics[r.x + 1]
                        [] r.kind \in {"temp", "plain"} -> r.x
                        [] OTHER -> NoVar, s)

ExecStmt(a, s, inh) ==
    CASE a.node = "ifstmt" ->
           LET c == Eval(a.cond, s, inh)
           IN  Exec(IF issdl_test(c.val) THEN a.then ELSE a.els, c.env, inh)
      [] a.node = "regsplit" ->
           LET t == Read(s, inh, a.res)
               p == Statics[a.pat + 1].val
               g == IF t.type = "str" /\ t.val \in DOMAIN p THEN p[t.val] ELSE <<>>
               k(x) == CHOOSE i \in DOMAIN a.dest : a.dest[i] = x
           IN  [x \in Vars |-> IF \A i \in DOMAIN a.dest : a.dest[i] # x THEN s[x]
                               ELSE IF k(x) \in DOMAIN g THEN ovm_str(g[k(x)])
                               ELSE NoVar]
      [] OTHER -> Eval(a, s, inh).env

Exec(as, s, inh) ==
    IF as = <<>> THEN s ELSE Exec(Tail(as), ExecStmt(Head(as), s, inh), inh)
\* The evaluation of a condition, from left to right, reads the flags of a
\* value that is not there or divides by nothing: an arithmetic operation on a
\* field that the event lacks, a function that does not test its parameter.
RECURSIVE Faults(_, _, _)
Faults(e, s, inh) ==
    LET l == Eval(e.lval, s, inh)
        r == Eval(e.rval, l.env, inh)
        v(i) == IF i > Len(e.params) THEN NoVar ELSE Eval(e.params[i], s, inh).val
    IN  CASE e.node = "assoc" -> Faults(e.rval, s, inh)
          [] e.node = "binop" ->
               \/ Faults(e.lval, s, inh) \/ Faults(e.rval, l.env, inh)
               \/ NoVar \in {l.val, r.val}
               \/ ~IsNull(l.val) /\ ~IsNull(r.val) /\ Crash \in issdl_arith(e.op, l.val, r.val)
          [] e.node = "cond" ->
               \/ Faults(e.lval, s, inh)
               \/ /\ e.op \in {"andand", "oror"} => issdl_test(l.val) = (e.op = "andand")
                  /\ Faults(e.rval, l.env, inh)
          [] e.node = "call" -> BuiltIn(e.res, v(1), v(2)).kind = "crash"
          [] OTHER -> FALSE
---------------------------------------------------------------------------
(* The path of state instances.                                             *)

NoValues == [x \in Vars |-> NoVar]


\* A statement that is an operator has no meaning (see CompileStmt).
RECURSIVE WellFormed(_)
WellFormed(as) ==
    \A i \in DOMAIN as :
      /\ as[i].node \notin {"binop", "cond"}
      /\ as[i].node = "ifstmt" => WellFormed(as[i].then) /\ WellFormed(as[i].els)

\* What a list of actions and a condition should do, after what was bound.
MeansActions(as, own, inh, ok) ==
    [env |-> Exec(as, own, inh), match |-> FALSE, fault |-> FALSE,
     ok |-> ok /\ WellFormed(as)]
MeansCond(c, own, inh, ok) ==
    LET r == Eval(c, own, inh)
    IN  IF Faults(c, own, inh)
        THEN [env |-> own, match |-> FALSE, fault |-> TRUE, ok |-> ok]
        ELSE [env |-> r.env, match |-> IsMatch(r.val), fault |-> FALSE, ok |-> ok]

Init ==
    /\ fields \in Events
    /\ prog \in Programs
    /\ code = compile_actions_ast(prog)
    /\ ip = 0
    /\ stack = <<>>
    /\ heap = [i \in 1 .. Len(Statics) + Len(fields) |->
                 Cell(IF i <= Len(Statics) THEN Statics[i]
                                           ELSE fields[i - Len(Statics)], FALSE)]
    /\ path = <<Unbound>>
    /\ inherit = Unbound
    /\ sigma = NoValues
    /\ meant = MeansActions(prog, NoValues, NoValues, TRUE)
    /\ phase = "run"

\* The condition of a transition is evaluated, whatever fields the event has
\* (bound: by one event); required_fields are only counted, for e-transitions.
EvalCondition ==
    /\ phase = "stop" /\ Len(path) < MaxStates
    /\ \E c \in Conditions :
         /\ prog' = <<c>>
         /\ code' = compile_trans_bytecode(c)
         /\ meant' = MeansCond(c, meant.env, sigma, meant.ok)
    /\ ip' = 0
    /\ phase' = "eval"
    /\ UNCHANGED <<fields, stack, heap, path, inherit, sigma>>

\* create_state_instance(): the new state inherits what its parent has bound
\* or inherited, and its actions are executed.
EnterState ==
    LET inh == [x \in Vars |-> Lookup(meant.env, sigma, x)]
    IN  /\ phase = "match"
        /\ \E p \in Programs :
             /\ prog' = p
             /\ code' = compile_actions_ast(p)
             /\ meant' = MeansActions(p, NoValues, inh, meant.ok)
        /\ ip' = 0
        /\ inherit' = [x \in Vars |-> IF env[x] # 0 THEN env[x] ELSE inherit[x]]
        /\ path' = Append(path, Unbound)
        /\ sigma' = inh
        /\ phase' = "run"
        /\ UNCHANGED <<fields, stack, heap>>

\* free_rule_instance(): the environment of every state instance is freed.
FreeInstance ==
    /\ phase \in {"stop", "nomatch"}
    /\ heap' = [r \in DOMAIN heap |->
                  IF heap[r].canfree
                  THEN [heap[r] EXCEPT !.frees = @ + Cardinality(
                          {<<i, x>> \in (DOMAIN path) \X Vars : path[i][x] = r})]
                  ELSE heap[r]]
    /\ path' = <<Unbound>>
    /\ inherit' = Unbound
    /\ phase' = "freed"
    /\ UNCHANGED <<fields, prog, code, ip, stack, sigma, meant>>

Instruction ==
    \/ OpPush \/ OpPop \/ OpTrash \/ OpPushStatic \/ OpPushField \/ OpCall
    \/ OpArith \/ OpCompare \/ OpMatch \/ OpRegSplit \/ OpJmp \/ OpPopCJmp
    \/ UnknownOpcode \/ OpEnd

Next ==
    \/ phase \in {"run", "eval"} /\ Instruction /\ Continue
    \/ EvalCondition
    \/ EnterState
    \/ FreeInstance
    \/ phase \in {"freed", "crash"} /\ UNCHANGED vars

Spec == Init /\ [][Next]_vars /\ WF_vars(Next)
---------------------------------------------------------------------------
(* Properties.                                                              *)

Executing == phase \in {"run", "eval"}
Done == phase \in {"stop", "match", "nomatch"}

\* The references in use: on the stack, bound, or inherited.
InUse == {stack[i] : i \in DOMAIN stack} \cup {inherit[x] : x \in Vars}
         \cup {path[i][x] : i \in DOMAIN path, x \in Vars}

\* The instruction pointer is in the code (and every reference is NULL or a
\* value), so that ovm_exec() never reads past the byte code.
TypeOK ==
    /\ phase \in {"run", "eval", "stop", "match", "nomatch", "freed", "crash"}
    /\ ip \in 0 .. Len(code) - 1
    /\ InUse \subseteq 0 .. Len(heap)

\* Every jump that the compiler resolved lands on an instruction, never on an
\* operand: the labels of nested conditions and statements are set right
\* (compile_set_labels()).
AtInstruction == Executing => Op # "arg"

\* The code that the compiler generates does what the rule says: after the
\* actions of a state its variables have the values that the reference
\* evaluation of the syntax tree gives, and a condition matches exactly when
\* it is true, with && and || evaluated from left to right.
CompiledMeaning ==
    Done /\ meant.ok =>
        /\ \A x \in Vars : ValueOf(heap, env[x]) = meant.env[x]
        /\ (phase = "match") = meant.match

\* A condition crashes exactly when its evaluation from left to right meets an
\* operation on a field that the event lacks: what stands behind && or || may
\* be guarded, as by defined(), and the jumps keep the guard.
CrashesAsWritten ==
    [][phase = "eval" /\ phase' # "eval" /\ meant.ok => (phase' = "crash") = meant.fault]_vars

\* The required fields of a transition are its "static conditions" (orchids.h):
\* the condition of one that waits for fields never meets an event without them.
ConditionNeverCrashes ==
    [][phase = "eval" /\ required_fields(prog[1]) # <<>> => phase' # "crash"]_vars

\* Every value is freed at most once, and no variable and no place of the
\* stack refers to a value that was freed.
FreedOnce == \A r \in DOMAIN heap : heap[r].frees <= 1
NoDanglingValue == \A r \in InUse : r = 0 \/ heap[r].frees = 0

\* After the release of the instance no temporary value is left, except the
\* ones that were tested (ovm_popcjmp() and ovm_exec() do not free what they
\* pop).
OnlyTestedLeak ==
    phase = "freed" =>
        \A r \in DOMAIN heap : heap[r].canfree /\ heap[r].frees = 0 => heap[r].tested

\* The execution of a list of actions or of a condition ends.
ExecutionEnds == Executing ~> ~Executing

\* ovm_exec() does not test where it is: the code keeps it on an instruction.
CodeSound == TypeOK /\ AtInstruction

\* Every temporary value has one owner, from the stack to the variables, which
\* frees it once.
ValuesOwned == FreedOnce /\ NoDanglingValue /\ OnlyTestedLeak
===========================================================================
