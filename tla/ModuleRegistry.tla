-------------------------- MODULE ModuleRegistry --------------------------
(***************************************************************************)
(* The leaves of a port or declaration as spec 4.3 and 4.4 give them: the  *)
(* type flattener of spec 4.4, against which the properties of ModuleIO    *)
(* compare what the code emits.  A bundle field's path is path.f, with its *)
(* direction inverted when the field is flipped; a vector emits one marker *)
(* leaf of width 0 and then the leaves of each index path[i]; a marker is  *)
(* not a pin.                                                              *)
(***************************************************************************)
EXTENDS Integers, Sequences, SequencesExt

DirIn  == 1
DirOut == 2
IdxNames == <<"0", "1", "2", "3">>

Base(id)   == <<[sep |-> "", v |-> id]>>
Fld(p, id) == Append(p, [sep |-> ".", v |-> id])
Idx(p, i)  == Append(p, [sep |-> "[", v |-> IdxNames[i]])

Inverted(dir) == IF dir = DirIn THEN DirOut ELSE DirIn

SpecLeaf(p, dir, bits, sign, marker, async) ==
  [path |-> p, dir |-> dir, bits |-> bits, sign |-> sign, marker |-> marker,
   async |-> async]

\* The flattening table of spec 4.4.
RECURSIVE SpecLeaves(_, _, _)
SpecLeaves(ty, dir, p) ==
  CASE ty.k = "uint"   -> <<SpecLeaf(p, dir, ty.w, FALSE, FALSE, FALSE)>>
    [] ty.k = "sint"   -> <<SpecLeaf(p, dir, ty.w, TRUE, FALSE, FALSE)>>
    [] ty.k \in {"clock", "reset"} -> <<SpecLeaf(p, dir, 1, FALSE, FALSE, FALSE)>>
    [] ty.k = "async"  -> <<SpecLeaf(p, dir, 1, FALSE, FALSE, TRUE)>>
    [] ty.k = "bundle" ->
         FoldLeft(LAMBDA acc, f :
                    acc \o SpecLeaves(f.ty, IF f.flip THEN Inverted(dir)
                                                      ELSE dir, Fld(p, f.id)),
                  <<>>, ty.fs)
    [] ty.k = "vector" ->
         <<SpecLeaf(p, dir, 0, FALSE, TRUE, FALSE)>>
           \o FoldLeft(LAMBDA acc, i : acc \o SpecLeaves(ty.el[1], dir, Idx(p, i)),
                       <<>>, [i \in 1..ty.n |-> i])

\* The leaves of every port of module m, in declaration order.
PortLeaves(m) ==
  FoldLeft(LAMBDA acc, pt : acc \o SpecLeaves(pt.ty, pt.dir, Base(pt.id)),
           <<>>, m.ports)

=============================================================================
