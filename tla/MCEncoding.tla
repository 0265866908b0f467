----------------------------- MODULE MCEncoding -----------------------------
(***************************************************************************)
(* Encoding over GR(163^2, 1), whose Teichmueller units have a subgroup of *)
(* 81 elements: four stages, of which the first has the code's least       *)
(* number of slots for threads, 27, in chunks of eight and a last one of   *)
(* three.                                                                  *)
(***************************************************************************)
EXTENDS Encoding

Monomial(j, c) == [size |-> j + 1, at |-> [i \in 0 .. j |-> IF i = j THEN c ELSE 0]]
Dense(n) == [size |-> n, at |-> [i \in 0 .. n - 1 |-> (163 * i + 5 * i * i + 1) % Modulus]]
Zero == [size |-> 0, at |-> <<>>]
Offset == SubgroupGenerator(162)

Call(op, f, offset, size, threads) ==
  [op |-> op, f |-> f, offset |-> offset, size |-> size,
   given |-> IF op = "interpolate" THEN size ELSE 0, threads |-> threads]

MCCalls ==
  {Call(op, f, 1, 81, 2) : op \in {"encode", "interpolate"}, f \in {Dense(81)}}
  \cup {Call("encode", Dense(95), Offset, 81, 1), Call("interpolate", Monomial(40, 163), Offset, 81, 2)}
  \cup {Call(op, f, o, 27, 2) : op \in {"encode", "interpolate"}, o \in {1, Offset},
                                f \in {Zero, Monomial(7, 163), Dense(20)}}
  \cup {Call("encode", Dense(n), Offset, 9, 1) : n \in {2, 9, 10, 13, 30}}
  \cup {Call("encode", Dense(3), Offset, 1, 1), Call("interpolate", Dense(1), Offset, 1, 1)}
  \cup {Call(op, Dense(5), Offset, 6, 1) : op \in {"encode", "interpolate"}}
  \cup {Call("oracle", Dense(9), o, 9, t) : o \in {1, Offset}, t \in {1, 2}}
  \cup {Call("oracle", Dense(9), Offset, 3, 2),
        [Call("interpolate", Dense(3), 1, 9, 1) EXCEPT !.given = 8]}
=============================================================================
