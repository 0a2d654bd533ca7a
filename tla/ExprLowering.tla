---------------------------- MODULE ExprLowering ----------------------------
(***************************************************************************)
(* The statement and expression lowering of the FIRRTL front end          *)
(* (fir_tolnast.cpp) for one user module: ListUserModuleInfo lists the     *)
(* ports (ListPortInfo), then hands every statement to ListStatementInfo,  *)
(* which emits LNAST nodes under the module's top stmts.  Expressions are  *)
(* lowered by InitialExprAdd (an expression assigned to a name) and        *)
(* ReturnExprString (an operand: the name holding its value, after the     *)
(* nodes that compute it), with muxes and valid-ifs turned into if nodes,  *)
(* primitive operations into func_call nodes (ListPrimOpInfo) and          *)
(* sub-field, sub-index and sub-access chains into dot and select nodes    *)
(* (FlattenExpression, HandleBundVecAcc, CreateDotsSelsFromStr).           *)
(*                                                                         *)
(* The LNAST is built of nodes [t, n, ch] as in SemanticCheck.  A name is  *)
(* a record [pre, p, lead]: the prefix the code concatenates in front of   *)
(* it ("$", "%", "#", "$inp_", "%out_", "_.", "___F" for a temporary,      *)
(* "rawu"/"raws" for a literal rendered from its bytes), the path it       *)
(* names, and what its first character is, which AttachExprStrToNode and  *)
(* CreateDotsSelsFromStr test.  Memories, memory ports and instances are   *)
(* left to MemLowering and ModuleIO: this module's modules have none, so   *)
(* the dangling-port, memory and instance branches are never taken.        *)
(* Pass::error and a failed assertion end the pass.                        *)
(***************************************************************************)
EXTENDS Integers, Sequences, SequencesExt, FiniteSets

CONSTANTS
  Mods,    \* candidate user modules [ports, body]
  TIds,    \* identifiers starting with "_T"
  GenIds   \* identifiers starting with "_GEN"

VARIABLES
  mod,     \* the module being lowered
  si,      \* the next step: a port entry (1..NP), a statement (NP+1..NP+NB),
           \* the late memory assigns (NP+NB+1); NP+NB+2 when done
  st,      \* the lowering's counters, name sets and error, see St0
  lnast    \* the statements under top -> stmts

vars == <<mod, si, st, lnast>>

DirIn  == 1
DirOut == 2

Base(id)   == <<[sep |-> "", v |-> id]>>

\* Names.
Nm(pre, p, lead) == [pre |-> pre, p |-> p, lead |-> lead]
Plain(p)     == Nm("", p, "other")
Sig(pre, p)  == Nm(pre, p, "other")
Num(s)       == Nm("", Base(s), "digit")
Lbl(s)       == Nm("", Base(s), "other")
NoName       == Lbl("")
Undef        == Num("0b?")

\* create_temp_var and get_new_seq_name.
Tmp(k)      == Sig("___F", Base(ToString(k)))
SeqName(k)  == Lbl("SEQ" \o ToString(k))
IsTemp(n)   == n.pre = "___F"

\* A literal is rendered as StrCat(value().value(), "u"): the BigInt's bytes
\* as characters.  One byte, in two's complement, is enough here.
ByteLead(b) == CASE b \in 48..57  -> "digit"
                 [] b \in {43, 45} -> "sign"
                 [] OTHER          -> "other"
Lit(e) == Nm(IF e.k = "uint" THEN "rawu" ELSE "raws", Base(ToString(e.v)),
             ByteLead(e.v % 256))

\* Nodes.
Leaf(t, n)     == [t |-> t, n |-> n, ch |-> <<>>]
R(n)           == Leaf("ref", n)
K(n)           == Leaf("const", n)
Nd(t, l, ch)   == [t |-> t, n |-> Lbl(l), ch |-> ch]
Stmts(k, body) == [t |-> "stmts", n |-> SeqName(k), ch |-> body]
Cond(n)        == Leaf("cond", n)

\* AttachExprStrToNode: a const when the text starts with a digit, '-' or
\* '+', else a ref.
Attach(n) == IF n.lead \in {"digit", "sign"} THEN K(n) ELSE R(n)

\* The result of a lowering function: the state after it, the nodes it
\* appended to the parent stmts, and the name it returns.
Res(s, out, nm) == [st |-> s, out |-> out, nm |-> nm]
Fail(s, e)      == IF s.err = "" THEN [s EXCEPT !.err = e] ELSE s
NewTemp(s)      == [s EXCEPT !.cnt = @ + 1]
NewSeq(s)       == [s EXCEPT !.seq = @ + 1]

-----------------------------------------------------------------------------
(* CreateDotsSelsFromStr.  The flattened string is a base name and a list  *)
(* of segments [k, n]: a field ("fld") or an index ("idx").  The string is *)
(* split on '.' first: an index whose text holds a '.' (a "_." name) is    *)
(* cut in two, "[_]" and "<id>]", the latter a field.  Then every element  *)
(* starting with "_T" gets "_." in front; an index makes a select into a   *)
(* fresh temporary (a const when its text starts with a digit); a field    *)
(* after a select makes a fresh dot, a field after a field is one more     *)
(* child of the same dot.  The result is the last node's first child.     *)

SplitIdx(s) ==
  IF s.k = "idx" /\ s.n.pre = "_."
  THEN LET piece == s.n.p[1].v \o "]" IN
       <<[k |-> "idx", n |-> Plain(Base("_"))],
         [k |-> "fld", n |-> IF s.n.p[1].v \in TIds THEN Sig("_.", Base(piece))
                             ELSE Plain(Base(piece))]>>
  ELSE <<s>>

TPrefix(n) == IF n.pre = "" /\ n.p[1].v \in TIds THEN Sig("_.", n.p) ELSE n

DotsRes(r) == Res(r.st, r.out, r.bund)

CreateDotsSels(s0, base, segs) ==
  LET step(a, g) ==
        CASE g.k = "idx" ->
               [a EXCEPT !.st = NewTemp(@), !.bund = Tmp(a.st.cnt), !.sel = TRUE,
                         !.out = Append(@, Nd("select", "",
                                  <<R(Tmp(a.st.cnt)), R(a.bund),
                                    IF g.n.lead = "digit" THEN K(g.n) ELSE R(g.n)>>))]
          [] a.sel ->
               [a EXCEPT !.st = NewTemp(@), !.bund = Tmp(a.st.cnt), !.sel = FALSE,
                         !.out = Append(@, Nd("dot", "",
                                  <<R(Tmp(a.st.cnt)), R(a.bund), R(g.n)>>))]
          [] OTHER ->
               [a EXCEPT !.out = [@ EXCEPT ![Len(@)].ch = Append(@, R(g.n))]]
      r == FoldLeft(step, [st |-> s0, out |-> <<>>, bund |-> TPrefix(base), sel |-> TRUE],
                    FoldLeft(LAMBDA acc, g : acc \o SplitIdx(g), <<>>, segs))
  IN  DotsRes(r)

\* The segments of a declared path p after its base.
PathSegs(p) ==
  [i \in 1..(Len(p) - 1) |->
     IF p[i + 1].sep = "." THEN [k |-> "fld", n |-> Plain(Base(p[i + 1].v))]
     ELSE [k |-> "idx", n |-> Num(p[i + 1].v)]]

\* get_full_name for a name the code passes as a string: a name that
\* already has a prefix is in none of the sets and does not start with
\* "_T", so it comes back unchanged.
GetFullName(s, n, rhs) ==
  IF n.pre # "" THEN Res(s, <<>>, n)
  ELSE CASE n.p \in s.inp  -> Res(s, <<>>, Sig("$", n.p))
         [] n.p \in s.outp -> Res(s, <<>>, Sig("%", n.p))
         [] n.p \in s.regs ->
              IF rhs THEN CreateDotsSels(s, Sig("#", n.p),
                                         <<[k |-> "fld", n |-> Plain(Base("__q_pin"))]>>)
                     ELSE Res(s, <<>>, Sig("#", n.p))
         [] n.p[1].v \in TIds \cup GenIds -> Res(s, <<>>, Sig("_.", n.p))
         [] OTHER -> Res(s, <<>>, n)

\* The path get_full_name is asked about in HandleBundVecAcc: every index
\* replaced by 0.
AlterPath(base, segs) ==
  Base(base) \o [i \in DOMAIN segs |->
                   IF segs[i].k = "fld" THEN [sep |-> ".", v |-> segs[i].n.p[1].v]
                   ELSE [sep |-> "[", v |-> "0"]]

-----------------------------------------------------------------------------
(* The primitive operations: callee and operand shape of each handler.     *)

TwoExprOps == {"add", "sub", "mul", "div", "rem", "dshl", "dshr", "and", "or",
               "xor", "lt", "leq", "gt", "geq", "eq", "neq"}
OneArgOps  == {"not", "andr", "orr", "xorr", "neg", "cvt"}
ConstOps   == {"bits", "head", "tail", "pad", "shl", "shr"}
ConvOps    == {"as_uint", "as_sint"}
BadConvOps == {"as_clock", "as_fixed", "as_async"}
UnsupOps   == {"incp", "decp", "setp", "wrap", "clip", "squeeze", "as_interval"}

Callee(op) == "__fir_" \o op

\* The handler's func_call node for result lhs and operand names a.
PrimCall(e, lhs, a) ==
  CASE e.op \in TwoExprOps ->
         Nd("func_call", Callee(e.op), <<R(lhs), Attach(a[1]), Attach(a[2])>>)
    [] e.op = "cat" -> Nd("func_call", Callee(e.op), <<R(lhs), R(a[1]), R(a[2])>>)
    [] e.op \in OneArgOps -> Nd("func_call", Callee(e.op), <<R(lhs), R(a[1])>>)
    [] OTHER ->
         Nd("func_call", Callee(e.op),
            <<R(lhs), R(a[1])>> \o [i \in DOMAIN e.cs |-> K(Num(e.cs[i]))])

-----------------------------------------------------------------------------
(* The mutually recursive lowering functions.  s is the state record.      *)

RECURSIVE Call(_, _, _, _)


\* The operands of a primitive operation, lowered left to right.
Operands(s, args) ==
  FoldLeft(LAMBDA a, x :
             LET r == Call("ReturnExprString", a.st, x, TRUE)
             IN  [st |-> r.st, out |-> a.out \o r.out, nm |-> Append(a.nm, r.nm)],
           [st |-> s, out |-> <<>>, nm |-> <<>>], args)

\* Mutant of ListPrimOpInfo: the func_call is added before its operands.
ListPrimOpInfoCallFirst(s, e, lhs) ==
  IF e.op \in UnsupOps THEN Res(Fail(s, "unsupported primop"), <<>>, NoName)
  ELSE LET o == Call("Operands", s, e.args, FALSE) IN
       CASE e.op \in BadConvOps ->
              Res(Fail(o.st, "as_clock, as_fixed, as_async not yet implemented"), o.out, NoName)
         [] e.op \in ConvOps /\ s.ub = "crash" ->
              Res(Fail(o.st, "const_(0) out of range"), o.out, NoName)
         [] e.op \in ConvOps ->
              Res(o.st, Append(o.out, Nd("func_call", Callee(e.op),
                                         <<R(lhs), R(o.nm[1]), K(Lbl("?"))>>)), NoName)
         [] OTHER -> Res(o.st, <<PrimCall(e, lhs, o.nm)>> \o o.out, NoName)

\* ListPrimOpInfo with the handler it dispatches to: the operands are
\* lowered before the func_call is added.  HandleTypeConvOp reads
\* op.const_(0) of an operation without constants: s.ub is what that read
\* yields, a crash or a garbage string.
ListPrimOpInfo(s, e, lhs) ==
  IF e.op \in UnsupOps THEN Res(Fail(s, "unsupported primop"), <<>>, NoName)
  ELSE LET o == Call("Operands", s, e.args, FALSE) IN
       CASE e.op \in BadConvOps ->
              Res(Fail(o.st, "as_clock, as_fixed, as_async not yet implemented"), o.out, NoName)
         [] e.op \in ConvOps /\ s.ub = "crash" ->
              Res(Fail(o.st, "const_(0) out of range"), o.out, NoName)
         [] e.op \in ConvOps ->
              Res(o.st, Append(o.out, Nd("func_call", Callee(e.op),
                                         <<R(lhs), R(o.nm[1]), K(Lbl("?"))>>)), NoName)
         [] OTHER -> Res(o.st, Append(o.out, PrimCall(e, lhs, o.nm)), NoName)

\* FlattenExpression: the base identifier and the segments; a sub-access
\* lowers its index (ReturnExprString) before flattening its vector.
FlattenExpression(s, e) ==
  CASE e.k = "ref" -> [st |-> s, out |-> <<>>, base |-> e.id, segs |-> <<>>]
    [] e.k = "field" ->
         LET r == Call("FlattenExpression", s, e.e, FALSE)
         IN  [r EXCEPT !.segs = Append(@, [k |-> "fld", n |-> Plain(Base(e.f))])]
    [] e.k = "index" ->
         LET r == Call("FlattenExpression", s, e.e, FALSE)
         IN  [r EXCEPT !.segs = Append(@, [k |-> "idx", n |-> Num(ToString(e.i))])]
    [] e.k = "access" ->
         LET ix == Call("ReturnExprString", s, e.idx, TRUE)
             r  == Call("FlattenExpression", ix.st, e.e, FALSE)
         IN  [r EXCEPT !.out = ix.out \o @,
                       !.segs = Append(@, [k |-> "idx", n |-> ix.nm])]
    [] OTHER -> [st |-> Fail(s, "assertion"), out |-> <<>>, base |-> "", segs |-> <<>>]

\* HandleBundVecAcc: the sigil comes from get_full_name on the name with
\* every index 0: "$inp_" for an input, "%out_" for an output, "#" for a
\* register written, ".__q_pin" appended for a register read.
HandleBundVecAcc(s, e, rhs) ==
  LET f  == Call("FlattenExpression", s, e, FALSE)
      ap == AlterPath(f.base, f.segs)
      b  == Base(f.base)
      q  == [k |-> "fld", n |-> Plain(Base("__q_pin"))]
      r  == CASE ap \in f.st.inp  -> CreateDotsSels(f.st, Sig("$inp_", b), f.segs)
              [] ap \in f.st.outp -> CreateDotsSels(f.st, Sig("%out_", b), f.segs)
              [] ap \in f.st.regs /\ rhs -> CreateDotsSels(f.st, Plain(b), Append(f.segs, q))
              [] ap \in f.st.regs -> CreateDotsSels(f.st, Sig("#", b), f.segs)
              [] OTHER -> CreateDotsSels(f.st, Plain(b), f.segs)
  IN  Res(r.st, f.out \o r.out, r.nm)

\* ReturnExprString: a mux, valid-if or primitive operation gets a fresh
\* temporary that the nodes computing it write.
ReturnExprString(s, e, rhs) ==
  CASE e.k = "ref" -> GetFullName(s, Plain(Base(e.id)), rhs)
    [] e.k \in {"uint", "sint"} -> Res(s, <<>>, Lit(e))
    [] e.k = "validif" ->
         LET r == Call("HandleValidIfAssign", NewTemp(s), e, Tmp(s.cnt))
         IN  Res(r.st, r.out, Tmp(s.cnt))
    [] e.k = "mux" ->
         LET r == Call("HandleMuxAssign", NewTemp(s), e, Tmp(s.cnt))
         IN  Res(r.st, r.out, Tmp(s.cnt))
    [] e.k \in {"field", "index", "access"} -> Call("HandleBundVecAcc", s, e, rhs)
    [] e.k = "prim" ->
         LET r == Call("ListPrimOpInfo", NewTemp(s), e, Tmp(s.cnt))
         IN  Res(r.st, r.out, Tmp(s.cnt))
    [] OTHER -> Res(Fail(s, "invalid expression"), <<>>, NoName)

\* Mutant of HandleMuxAssign: the true stmts assigns the false value.
HandleMuxAssignSwapped(s, e, lhs) ==
  LET lf == GetFullName(s, lhs, FALSE).nm
      c  == Call("ReturnExprString", s, e.c, TRUE)
      tb == Call("InitialExprAdd", NewSeq(NewSeq(c.st)), e.f, lhs)
      fb == Call("InitialExprAdd", tb.st, e.t, lhs)
  IN  Res(fb.st,
          <<Nd("assign", "", <<R(lf), K(Undef)>>)>> \o c.out
            \o <<Nd("if", "mux", <<Cond(c.nm), Stmts(c.st.seq, tb.out),
                                  Stmts(c.st.seq + 1, fb.out)>>)>>,
          NoName)

\* HandleMuxAssign: lhs := 0b?, then if (cond) with a true and a false
\* stmts, each assigning one branch value to lhs.
HandleMuxAssign(s, e, lhs) ==
  LET lf == GetFullName(s, lhs, FALSE).nm
      c  == Call("ReturnExprString", s, e.c, TRUE)
      tb == Call("InitialExprAdd", NewSeq(NewSeq(c.st)), e.t, lhs)
      fb == Call("InitialExprAdd", tb.st, e.f, lhs)
  IN  Res(fb.st,
          <<Nd("assign", "", <<R(lf), K(Undef)>>)>> \o c.out
            \o <<Nd("if", "mux", <<Cond(c.nm), Stmts(c.st.seq, tb.out),
                                  Stmts(c.st.seq + 1, fb.out)>>)>>,
          NoName)

\* HandleValidIfAssign: lhs := value, then if (cond) { lhs := value }.
HandleValidIfAssign(s, e, lhs) ==
  LET v1 == Call("InitialExprAdd", s, e.v, lhs)
      c  == Call("ReturnExprString", v1.st, e.c, TRUE)
      v2 == Call("InitialExprAdd", NewSeq(c.st), e.v, lhs)
  IN  Res(v2.st,
          v1.out \o c.out
            \o <<Nd("if", "validIf", <<Cond(c.nm), Stmts(c.st.seq, v2.out)>>)>>,
          NoName)

\* The assignment InitialExprAdd emits: dp_assign when lhs starts with '%'.
AsgType(lhs) == IF lhs.pre \in {"%", "%out_"} THEN "dp_assign" ELSE "assign"

\* InitialExprAdd: the expression assigned to lhs.  A sub-index or
\* sub-access selects into a temporary from the name ReturnExprString
\* gives its vector, then assigns the temporary with a plain assign.
InitialExprAdd(s, e, lhs0) ==
  LET lhs == GetFullName(s, lhs0, FALSE).nm IN
  CASE e.k = "ref" ->
         LET r == GetFullName(s, Plain(Base(e.id)), TRUE)
         IN  Res(r.st, Append(r.out, Nd(AsgType(lhs), "", <<R(lhs), R(r.nm)>>)), NoName)
    [] e.k \in {"uint", "sint"} ->
         Res(s, <<Nd(AsgType(lhs), "", <<R(lhs), K(Lit(e))>>)>>, NoName)
    [] e.k = "validif" -> Call("HandleValidIfAssign", s, e, lhs)
    [] e.k = "mux" -> Call("HandleMuxAssign", s, e, lhs)
    [] e.k = "field" ->
         LET r == Call("HandleBundVecAcc", s, e, TRUE)
         IN  Res(r.st, Append(r.out, Nd(AsgType(lhs), "", <<R(lhs), R(r.nm)>>)), NoName)
    [] e.k = "index" ->
         LET x == Call("ReturnExprString", s, e.e, TRUE)
         IN  Res(NewTemp(x.st),
                 x.out \o <<Nd("select", "selectSI", <<R(Tmp(x.st.cnt)), Attach(x.nm),
                                                     K(Num(ToString(e.i)))>>),
                            Nd("assign", "selectSI_asg", <<R(lhs), R(Tmp(x.st.cnt))>>)>>,
                 NoName)
    [] e.k = "access" ->
         LET x  == Call("ReturnExprString", s, e.e, TRUE)
             ix == Call("ReturnExprString", x.st, e.idx, TRUE)
         IN  Res(NewTemp(ix.st),
                 x.out \o ix.out
                   \o <<Nd("select", "selectSA", <<R(Tmp(ix.st.cnt)), Attach(x.nm),
                                                  Attach(ix.nm)>>),
                        Nd("assign", "selectSA_asg", <<R(lhs), R(Tmp(ix.st.cnt))>>)>>,
                 NoName)
    [] e.k = "prim" -> Call("ListPrimOpInfo", s, e, lhs)
    [] OTHER -> Res(Fail(s, "unknown expression"), <<>>, NoName)

-----------------------------------------------------------------------------
(* Declarations and statements.                                            *)

\* The assign of constant v to the attribute d names, after d's nodes.
AssignAttr(d, v) == Res(d.st, Append(d.out, Nd("assign", "", <<R(d.nm), K(v)>>)), NoName)

BitsField(sign) == [k |-> "fld", n |-> Plain(Base(IF sign THEN "__sbits" ELSE "__ubits"))]

\* create_bitwidth_dot_node: name.__ubits (or __sbits) := bits, nothing
\* for width 0.
BitwidthDot(s, base, segs, bits, sign) ==
  IF bits <= 0 THEN Res(s, <<>>, NoName)
  ELSE AssignAttr(CreateDotsSels(s, base, Append(segs, BitsField(sign))), Num(ToString(bits)))

\* ListPortInfo for one entry of the port list: the name joins the input
\* or output set; "$inp_" / "%out_" when it holds a '.' or '[', else "$"
\* / "%".
ListPortInfo(s, l) ==
  LET pre == IF l.dir = DirIn THEN IF Len(l.path) > 1 THEN "$inp_" ELSE "$"
             ELSE IF Len(l.path) > 1 THEN "%out_" ELSE "%"
      s1  == CASE l.dir = DirIn  -> [s EXCEPT !.inp = @ \cup {l.path}]
                [] l.dir = DirOut -> [s EXCEPT !.outp = @ \cup {l.path}]
                [] OTHER -> Fail(s, "unknown direction")
  IN  BitwidthDot(s1, Sig(pre, Base(l.path[1].v)), PathSegs(l.path), l.bits, l.sign)

\* init_wire_dots for a wire of ground type.
WireDots(s, x) ==
  LET r == BitwidthDot(s, Plain(Base(x.id)), <<>>, x.w, x.ty = "sint")
  IN  IF x.ty = "async" THEN [r EXCEPT !.st.async = @ \cup {Base(x.id)}] ELSE r

\* The string FlattenExpression returns, as a path.
FlatPath(f) ==
  Base(f.base) \o [i \in DOMAIN f.segs |->
                     [sep |-> IF f.segs[i].k = "fld" THEN "." ELSE "[",
                      v |-> f.segs[i].n.p[1].v]]

\* The __reset_async attribute of init_reg_ref_dots: #r.__reset_async :=
\* true when the reset is an AS_ASYNC_RESET, or a name whose flattened
\* string f is in async_rst_names.
ResetAsyncDot(s, x, f) ==
  IF \/ x.rst.k = "prim" /\ x.rst.op = "as_async"
     \/ x.rst.k \in {"ref", "field", "index", "access"} /\ FlatPath(f) \in s.async
  THEN AssignAttr(CreateDotsSels(s, Sig("#", Base(x.id)),
                                 <<[k |-> "fld", n |-> Plain(Base("__reset_async"))]>>),
                  Lbl("true"))
  ELSE Res(s, <<>>, NoName)

\* FlattenExpression is called only for a reset that is a name.
ResetFlatten(s, x) ==
  IF x.rst.k \in {"ref", "field", "index", "access"}
  THEN Call("FlattenExpression", s, x.rst, FALSE)
  ELSE [st |-> s, out |-> <<>>, base |-> "", segs |-> <<>>]

\* The nodes of init_reg_ref_dots in order: clock, reset, width, flattened
\* reset, __reset_async.
RegRefNodes(x, c, r, w, f) ==
  LET a == ResetAsyncDot(f.st, x, f)
  IN  Res(a.st, c.out \o r.out \o w.out \o f.out \o a.out, NoName)

\* init_reg_ref_dots: clock and reset lowered, the register name recorded,
\* its width attribute, then the __reset_async attribute.
InitRegRefDots(s, x, sign) ==
  LET c == Call("ReturnExprString", s, x.clk, TRUE)
      r == Call("ReturnExprString", c.st, x.rst, TRUE)
      w == BitwidthDot([r.st EXCEPT !.regs = @ \cup {Base(x.id)}], Sig("#", Base(x.id)), <<>>,
                       x.w, sign)
  IN  RegRefNodes(x, c, r, w, ResetFlatten(w.st, x))

\* The register case of ListStatementInfo and init_reg_dots for a ground
\* type: kSintType has no break and falls into the default case.
RegDots(s, x) ==
  LET s0 == [s EXCEPT !.regs = @ \cup {Base(x.id)}]
  IN  CASE x.ty = "sint" ->
             LET a == Call("InitRegRefDots", s0, x, TRUE)
                 b == Call("InitRegRefDots", a.st, x, FALSE)
             IN  Res(b.st, a.out \o b.out, NoName)
        [] x.ty = "async" ->
             LET a == Call("InitRegRefDots", s0, x, FALSE)
             IN  [a EXCEPT !.st.async = @ \cup {Base(x.id)}]
        [] OTHER -> Call("InitRegRefDots", s0, x, FALSE)

StopCall(x, clk, args) ==
  Nd("func_call", x.k, <<R(Lbl("null")), R(Lbl(x.k)), R(clk)>>
                         \o (IF x.k = "stop" THEN <<R(Num(ToString(x.ret)))>>
                             ELSE <<R(Lbl(x.fmt))>> \o [i \in DOMAIN args |-> R(args[i])]))


ListStatements(s, xs) ==
  FoldLeft(LAMBDA a, x : LET r == Call("ListStatementInfo", a.st, x, FALSE) IN Res(r.st, a.out \o r.out, NoName),
           Res(s, <<>>, NoName), xs)

\* ListStatementInfo: one statement, with its nested statements.
ListStatementInfo(s, x) ==
  CASE x.k = "wire" -> WireDots(s, x)
    [] x.k = "reg" -> Call("RegDots", s, x, FALSE)
    [] x.k = "node" -> Call("InitialExprAdd", s, x.e, Plain(Base(x.id)))
    [] x.k \in {"connect", "pconnect"} ->
         LET l == Call("ReturnExprString", s, x.loc, FALSE)
             r == Call("InitialExprAdd", l.st, x.e, l.nm)
         IN  Res(r.st, l.out \o r.out, NoName)
    [] x.k = "when" ->
         LET c == Call("ReturnExprString", s, x.c, TRUE)
             t == Call("ListStatements", NewSeq(c.st), x.conseq, FALSE)
             f == Call("ListStatements", NewSeq(t.st), x.alt, FALSE)
         IN  IF Len(x.alt) > 0
             THEN Res(f.st, c.out \o <<Nd("if", "when", <<Cond(c.nm), Stmts(c.st.seq, t.out),
                                                          Stmts(t.st.seq, f.out)>>)>>, NoName)
             ELSE Res(t.st, c.out \o <<Nd("if", "when", <<Cond(c.nm), Stmts(c.st.seq, t.out)>>)>>,
                      NoName)
    [] x.k \in {"stop", "printf"} ->
         LET c == Call("ReturnExprString", s, x.en, TRUE)
             k == Call("ReturnExprString", c.st, x.clk, TRUE)
             a == Call("Operands", k.st, IF x.k = "printf" THEN x.args ELSE <<>>, FALSE)
         IN  Res(a.st, c.out \o k.out \o a.out
                         \o <<Nd("if", x.k, <<Cond(c.nm), Nd("if", x.k, <<StopCall(x, k.nm, a.nm)>>)>>)>>,
                 NoName)
    [] x.k \in {"skip", "invalid"} -> Res(s, <<>>, NoName)
    [] x.k = "attach" -> Res(Fail(s, "Attach statement not yet supported"), <<>>, NoName)
    [] OTHER -> Res(Fail(s, "Unknown statement type"), <<>>, NoName)


\* The mutually recursive functions call each other through Call, which
\* dispatches on the function's name (x is unused by the two-argument ones).
Call(f, s, e, x) ==
  CASE f = "ReturnExprString"    -> ReturnExprString(s, e, x)
    [] f = "InitialExprAdd"      -> InitialExprAdd(s, e, x)
    [] f = "HandleMuxAssign"     -> HandleMuxAssign(s, e, x)
    [] f = "HandleValidIfAssign" -> HandleValidIfAssign(s, e, x)
    [] f = "ListPrimOpInfo"      -> ListPrimOpInfo(s, e, x)
    [] f = "HandleBundVecAcc"    -> HandleBundVecAcc(s, e, x)
    [] f = "FlattenExpression"   -> FlattenExpression(s, e)
    [] f = "Operands"            -> Operands(s, e)
    [] f = "ListStatementInfo"   -> ListStatementInfo(s, e)
    [] f = "ListStatements"      -> ListStatements(s, e)
    [] f = "InitRegRefDots"      -> InitRegRefDots(s, e, x)
    [] f = "RegDots"             -> RegDots(s, e)

-----------------------------------------------------------------------------
(* ListUserModuleInfo: the top stmts is SEQ0; the ports, one statement per *)
(* step, then PerformLateMemAssigns (nothing without memories).            *)

St0 == [cnt |-> 0, seq |-> 1, err |-> "", ub |-> "none",
        inp |-> {}, outp |-> {}, regs |-> {}, async |-> {}]

NP == Len(mod.ports)
NB == Len(mod.body)

Init ==
  /\ mod \in Mods
  /\ si = 1
  /\ st = St0
  /\ lnast = <<>>

Failed == st.err # ""

\* One entry of the port list; create_io_list records an AsyncReset leaf in
\* async_rst_names.
ListPort ==
  /\ si \in 1..NP /\ ~Failed
  /\ LET l == mod.ports[si]
         r == ListPortInfo(st, l)
     IN  /\ st' = IF l.async THEN [r.st EXCEPT !.async = @ \cup {l.path}] ELSE r.st
         /\ lnast' = IF r.st.err = "" THEN lnast \o r.out ELSE lnast
  /\ si' = si + 1
  /\ UNCHANGED mod

\* One top statement of a kind in ks.  What op.const_(0) of a conversion
\* yields is chosen here.
Lower(ks) ==
  /\ si - NP \in 1..NB /\ ~Failed
  /\ mod.body[si - NP].k \in ks
  /\ \E ub \in {"crash", "garbage"} :
       LET r == Call("ListStatementInfo", [st EXCEPT !.ub = ub], mod.body[si - NP], FALSE)
       IN  /\ st' = [r.st EXCEPT !.ub = "none"]
           /\ lnast' = IF r.st.err = "" THEN lnast \o r.out ELSE lnast
  /\ si' = si + 1
  /\ UNCHANGED mod

Declare     == Lower({"wire", "reg"})
NodeStmt    == Lower({"node"})
ConnectStmt == Lower({"connect", "pconnect"})
WhenStmt    == Lower({"when"})
StopStmt    == Lower({"stop", "printf"})
NoOpStmt    == Lower({"skip", "invalid"})
AttachStmt  == Lower({"attach"})

\* Mutant of EndModule: the step counter skips past the end.
EndModuleSkip ==
  /\ si = NP + NB + 1 /\ ~Failed
  /\ si' = si + 2
  /\ UNCHANGED <<mod, st, lnast>>

\* PerformLateMemAssigns: nothing to assign without memories.
EndModule ==
  /\ si = NP + NB + 1 /\ ~Failed
  /\ si' = si + 1
  /\ UNCHANGED <<mod, st, lnast>>

Done == si = NP + NB + 2

Next ==
  \/ ListPort
  \/ Declare \/ NodeStmt \/ ConnectStmt \/ WhenStmt \/ StopStmt \/ NoOpStmt \/ AttachStmt
  \/ EndModule

Spec == Init /\ [][Next]_vars /\ WF_vars(Next)

====
