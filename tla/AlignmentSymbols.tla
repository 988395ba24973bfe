-------------------------- MODULE AlignmentSymbols --------------------------
(***************************************************************************)
(* The alignment symbols (a|x, with the latent annotations of conjugation  *)
(* class and change region: a|x-c2-g1), and the machine that accepts the   *)
(* well-formed strings of them (create/).                                  *)
(*                                                                         *)
(* The symbols are numbered in the order of the symbol table; a label is   *)
(* such a number, and the table the sequence of the symbols.               *)
(***************************************************************************)
EXTENDS Integers, SequencesExt

CONSTANTS
  ILetters,     \* the input letters, in the order of their table
  OLetters      \* the output letters

Eps == "-"

\* A symbol table has each symbol once, and a few that are no letters.
ASSUME LettersAssumption ==
  \A letters \in {ILetters, OLetters} :
    /\ letters \in Seq(STRING)
    /\ \A i, j \in DOMAIN letters : letters[i] = letters[j] => i = j
    /\ \A i \in DOMAIN letters : letters[i] \notin {Eps, "S", "E"}

Unannotated == -1
Symbol(i, o) == [in |-> i, out |-> o, c |-> 0, g |-> Unannotated]
StartSym == Symbol("S", "S")
EndSym == Symbol("E", "E")
IsSpecial(s) == s \in {StartSym, EndSym}
IsInsertion(s) == s.in = Eps
IsChange(s) == s.in # s.out
Nola(s) == Symbol(s.in, s.out)

\* Not -|-, and S and E only with themselves.
IsAlignmentSym(s) ==
  /\ s.in # Eps \/ s.out # Eps
  /\ \A special \in {"S", "E"} : s.in = special <=> s.out = special

\* The elements of a sequence that are in S.
Kept(seq, S) ==
  FoldLeft(LAMBDA kept, s : IF s \in S THEN Append(kept, s) ELSE kept, <<>>, seq)

\* All pairs of an input and an output letter, row by row.
CreateAlignmentSymbolTable ==
  LET I == <<Eps, "S", "E">> \o ILetters
      O == <<Eps, "S", "E">> \o OLetters
      row(i) == [o \in DOMAIN O |-> Symbol(I[i], O[o])]
      all == FlattenSeq([i \in DOMAIN I |-> row(i)])
  IN Kept(all, {s \in ToSet(all) : IsAlignmentSym(s)})

\* GetAlignmentSymbolsFct_AddIdentityChars: the symbols of some alignments, and
\* a|a for each letter that both tables have (in the order of all symbols).
AddIdentityChars(aligned) ==
  Kept(CreateAlignmentSymbolTable,
       aligned \cup {s \in ToSet(CreateAlignmentSymbolTable) : ~ IsChange(s)})

getConjSymbolTable(table, conjs) ==
  FlattenSeq([l \in DOMAIN table |->
    IF IsSpecial(table[l]) THEN <<table[l]>>
    ELSE [j \in 1 .. conjs |-> [table[l] EXCEPT !.c = j]]])

\* Identities get even numbers, changes odd ones.  A symbol that has a class
\* already does not look like an identity: a|a-c1 is split into a and a-c1.
getChangeSegSymbolTable(table, segs) ==
  LET annotated(s) ==
        IF IsSpecial(s) THEN <<s>>
        ELSE IF ~ IsChange(s) /\ s.c = 0
        THEN [j \in 1 .. segs + 1 |-> [s EXCEPT !.g = 2 * j - 2]]
        ELSE [j \in 1 .. segs |-> [s EXCEPT !.g = 2 * j - 1]]
  IN FlattenSeq([l \in DOMAIN table |-> annotated(table[l])])

\* The symbols on the output side of proj_up (GetFirstAndLast).
AddLatentAnnotations(basic, conjs, segs) ==
  LET withClass == IF conjs > 0 THEN getConjSymbolTable(basic, conjs) ELSE basic
  IN IF segs > 0 THEN getChangeSegSymbolTable(withClass, segs) ELSE withClass

-----------------------------------------------------------------------------
(* proj_up and proj_down: the strings of symbols between S|S and E|E that   *)
(* read some letters and write others.                                     *)

\* initHookMachine: S|S leads from state 0 to 1, E|E from 1 to 2.
HookArcs(q, s) ==
  IF q # (IF s = StartSym THEN 0 ELSE 1) THEN {} ELSE {IF s = EndSym THEN 2 ELSE 1}

Alignments(in, out) ==
  LET inner[p \in (0 .. Len(in)) \X (0 .. Len(out))] ==
        LET i == p[1]
            j == p[2]
        IN (IF i = 0 /\ j = 0 THEN {<<>>} ELSE {})
           \cup (IF i > 0 THEN {Append(w, Symbol(in[i], Eps)) : w \in inner[<<i - 1, j>>]} ELSE {})
           \cup (IF j > 0 THEN {Append(w, Symbol(Eps, out[j])) : w \in inner[<<i, j - 1>>]} ELSE {})
           \cup (IF i > 0 /\ j > 0
                 THEN {Append(w, Symbol(in[i], out[j])) : w \in inner[<<i - 1, j - 1>>]} ELSE {})
  IN {<<StartSym>> \o w \o <<EndSym>> : w \in inner[<<Len(in), Len(out)>>]}

\* Strings of labels with one label more, for a form of s.
Relabelled(table, vs, s) ==
  {Append(v, l) : v \in vs, l \in {k \in DOMAIN table : Nola(table[k]) = s}}

\* CreateNolaToLaFst: the same string with all annotations that the table has.
Annotate(w, table) == FoldLeft(LAMBDA vs, s : Relabelled(table, vs, s), {<<>>}, w)

-----------------------------------------------------------------------------
(* getWellFormed: S|S, a string that three machines accept, E|E.  The      *)
(* machines are read together; a state holds all triples they can be in.   *)

\* Fault: one insertion too many.
LimitTooLate(limit, j, s) ==
  IF limit < 0 \/ ~ IsInsertion(s) THEN {0} ELSE IF j <= limit THEN {j + 1} ELSE {}

\* At most limit insertions in a row; a negative limit is none.
LimitArcs(limit, j, s) ==
  IF limit < 0 \/ ~ IsInsertion(s) THEN {0} ELSE IF j < limit THEN {j + 1} ELSE {}

\* One class throughout: state 0 leads to the state of any class by epsilon.
ConjStates(conjs) == 0 .. conjs
ConjArcs(conjs, k, s) ==
  IF conjs = 0 THEN {0}
  ELSE IF k # s.c THEN {} ELSE IF k = 0 THEN ConjStates(conjs) ELSE {k}

\* getChgSegMachine3: state g + 1 is region g; 0 leads to all of them by epsilon, and
\* S|S and E|E have no arcs.  The assertions that changes have odd and identities
\* even numbers are not compiled, and do not hold for identities with a class.
ChgSegStates(segs) == IF segs = 0 THEN {0} ELSE 1 .. 2 * segs + 1
ChgSegArcs(segs, r, s) ==
  LET rises == r <= s.g /\ r % 2 = (IF IsChange(s) THEN 1 ELSE 0)
  IN IF segs = 0 THEN {0}
     ELSE IF ~ IsSpecial(s) /\ (r = s.g + 1 \/ rises) THEN {s.g + 1} ELSE {}

\* Determinised: pos is 0 before S|S, 2 if E|E may have been the last symbol.
WfStart == [pos |-> 0, at |-> {}]
WfArc(limit, conjs, segs, q, s) ==
  IF q.pos = 0
  THEN [pos |-> 1, at |-> IF s = StartSym THEN {0} \X ConjStates(conjs) \X ChgSegStates(segs)
                          ELSE {}]
  ELSE [pos |-> IF s = EndSym /\ q.at # {} THEN 2 ELSE 1,
        at |-> UNION {LimitArcs(limit, a[1], s) \X ConjArcs(conjs, a[2], s)
                        \X ChgSegArcs(segs, a[3], s) : a \in q.at}]
WfDead(q) == q.pos = 1 /\ q.at = {}

\* Where the machine is after a string of symbols.
WfState(limit, conjs, segs, w) ==
  FoldLeft(LAMBDA q, s : WfArc(limit, conjs, segs, q, s), WfStart, w)
WfAccepts(limit, conjs, segs, w) == WfState(limit, conjs, segs, w).pos = 2

-----------------------------------------------------------------------------
(* What the machine should accept.                                         *)

InsertionsLimited(limit, x) ==
  limit >= 0 =>
    \A i \in DOMAIN x : i + limit \in DOMAIN x => \E j \in i .. i + limit : ~ IsInsertion(x[j])

OneClass(conjs, x) == conjs > 0 => \A i, j \in DOMAIN x : x[i].c = x[j].c

\* A region is a run of changes or of identities; the numbers rise.
RegionsRise(segs, x) ==
  segs > 0 =>
    \A i \in DOMAIN x : i + 1 \in DOMAIN x =>
      IF IsChange(x[i]) = IsChange(x[i + 1]) THEN x[i].g = x[i + 1].g ELSE x[i].g < x[i + 1].g

\* With classes all numbers are odd: a region may have changes and identities, and
\* ends only at an identity.
RegionsMixed(segs, x) ==
  segs > 0 =>
    \A i \in DOMAIN x : i + 1 \in DOMAIN x =>
      IF IsChange(x[i + 1]) THEN x[i].g = x[i + 1].g ELSE x[i].g <= x[i + 1].g

IsWellFormed(limit, conjs, segs, w) ==
  LET x == SubSeq(w, 2, Len(w) - 1)
  IN /\ Len(w) >= 2 /\ w[1] = StartSym /\ w[Len(w)] = EndSym
     /\ \A i \in DOMAIN x : ~ IsSpecial(x[i])
     /\ InsertionsLimited(limit, x) /\ OneClass(conjs, x)
     /\ IF conjs = 0 THEN RegionsRise(segs, x) ELSE RegionsMixed(segs, x)
=============================================================================
