--------------------------- MODULE ShaderProgramsProofs ---------------------------
(***************************************************************************)
(* ShaderPrograms for any shaders, programs, contents of files and number  *)
(* of recompilations: types, that every program is linked from the sources *)
(* the manager holds, and that those are no older than the request.        *)
(***************************************************************************)
EXTENDS ShaderPrograms, FiniteSetTheorems, TLAPS

\* What the current loop has still to visit.
Left == ToSet(todo)

\* Program n is linked from the sources held.
Built(n) ==
  /\ n \in DOMAIN shader_program_assets
  /\ objects[shader_program_assets[n]] = [p \in Stages[n] |-> shader_sources[p]]

\* The loops over sources: what they have visited is held, and was on disk
\* after they were asked for.
SourceInv ==
  /\ pc \in {"sources", "reload"} => todo \in Seq(Paths)
  /\ pc = "sources" => Paths \ Left \subseteq DOMAIN shader_sources
  /\ pc \in {"programs", "run", "reload", "compile"} => DOMAIN shader_sources = Paths
  /\ \A p \in Paths : disk[p] \in offered[p]
  /\ pc \in {"sources", "reload"} =>
       \A p \in Paths \ Left : shader_sources[p] \in offered[p]
  /\ pc \in {"programs", "run", "compile"} =>
       \A p \in Paths : shader_sources[p] \in offered[p]

\* The loops over programs: what they have visited is linked from what is held.
ProgramInv ==
  /\ pc \in {"programs", "compile"} => /\ todo \in Seq(Names)
                                       /\ \A n \in Names \ Left : Built(n)
  /\ pc = "run" => \A n \in Names : Built(n)

ShaderInv == TypeOK /\ SourceInv /\ ProgramInv

-----------------------------------------------------------------------------
(* Lists.                                                                  *)

\* A loop visits the first element of its list and then the others.
LEMMA Visited ==
  ASSUME NEW S, NEW q \in Seq(S), q # <<>>
  PROVE  /\ Head(q) \in S /\ Tail(q) \in Seq(S)
         /\ Len(q) \in Nat /\ Len(Tail(q)) = Len(q) - 1
         /\ Head(q) \in ToSet(q)
         /\ ToSet(q) = {Head(q)} \cup ToSet(Tail(q))
         /\ Len(q) = 1 => ToSet(q) = {Head(q)}
<1>1. /\ Head(q) = q[1] /\ Head(q) \in S /\ Tail(q) \in Seq(S)
      /\ Len(q) \in Nat \ {0} /\ Len(Tail(q)) = Len(q) - 1
      /\ DOMAIN q = 1 .. Len(q) /\ DOMAIN Tail(q) = 1 .. Len(q) - 1
      /\ \A i \in 1 .. Len(q) - 1 : Tail(q)[i] = q[i + 1]
  OBVIOUS
<1>2. ASSUME NEW x \in ToSet(q), x # Head(q)
      PROVE  x \in ToSet(Tail(q))
  <2>1. PICK i \in 1 .. Len(q) : x = q[i]
    BY <1>1, <1>2 DEF ToSet
  <2>2. i - 1 \in 1 .. Len(q) - 1 /\ Tail(q)[i - 1] = q[i]
    BY <1>1, <1>2, <2>1
  <2> QED
    BY <1>1, <2>1, <2>2 DEF ToSet
<1>3. ToSet(Tail(q)) \subseteq ToSet(q)
  BY <1>1 DEF ToSet
<1>4. Head(q) \in ToSet(q)
  BY <1>1 DEF ToSet
<1>5. Len(q) = 1 => ToSet(q) = {Head(q)}
  BY <1>1 DEF ToSet
<1> QED
  BY <1>1, <1>2, <1>3, <1>4, <1>5

\* Any order of the elements of a list without duplicates has its length and
\* leaves none out.
LEMMA Orders ==
  ASSUME NEW S, NEW s \in Seq(S), S = ToSet(s), IsInjective(s), NEW q \in SetToSeqs(S)
  PROVE  q \in Seq(S) /\ Len(q) = Len(s) /\ ToSet(q) = S
<1>1. /\ s \in [1 .. Len(s) -> S] /\ Len(s) \in Nat
      /\ \A x \in S : \E i \in 1 .. Len(s) : s[i] = x
  BY DEF ToSet
<1>2. s \in Bijection(1 .. Len(s), S)
  BY <1>1 DEF Bijection, Injection, Surjection
<1>3. IsFiniteSet(1 .. Len(s)) /\ Cardinality(1 .. Len(s)) = Len(s)
  <2>1. IF 1 > Len(s) THEN Cardinality(1 .. Len(s)) = 0
        ELSE Cardinality(1 .. Len(s)) = Len(s) - 1 + 1
    <3>1. 1 \in Int /\ Len(s) \in Int
      BY <1>1
    <3>2. Cardinality(1 .. Len(s)) = IF 1 > Len(s) THEN 0 ELSE Len(s) - 1 + 1
      BY <3>1, FS_Interval, Zenon
    <3> QED
      BY <3>2
  <2>2. IsFiniteSet(1 .. Len(s))
    <3>1. 1 \in Int /\ Len(s) \in Int
      BY <1>1
    <3> QED
      BY <3>1, FS_Interval, Zenon
  <2> QED
    BY <1>1, <2>1, <2>2
<1>4. IsFiniteSet(S) /\ Cardinality(S) = Len(s)
  BY <1>2, <1>3, FS_Bijection DEF ExistsBijection
<1>5. q \in [1 .. Len(s) -> S] /\ IsInjective(q)
  BY <1>4 DEF SetToSeqs, IsInjective
<1>6. q \in Seq(S) /\ Len(q) = Len(s) /\ DOMAIN q = 1 .. Len(s)
  BY <1>1, <1>5
<1>7. q \in Surjection(1 .. Len(s), S)
  BY <1>3, <1>4, <1>5, FS_Injection DEF Injection
<1> QED
  BY <1>6, <1>7 DEF ToSet, Surjection

-----------------------------------------------------------------------------
(* The loops.                                                              *)

\* One turn of a loop over sources.
LEMMA SourceTurn ==
  ASSUME TypeOK, SourceInv, pc \in {"sources", "reload"},
         NEW next, NEW list, SourceStep(next, list)
  PROVE  /\ UNCHANGED <<disk, shader_program_assets, objects, offered>>
         /\ shader_sources' \in UNION {[P -> Texts] : P \in SUBSET Paths}
         /\ DOMAIN shader_sources \subseteq DOMAIN shader_sources'
         /\ \/ pc' = "terminated" /\ UNCHANGED <<todo, shader_sources>>
            \/ /\ pc' = pc
               /\ todo' \in Seq(Paths) /\ Len(todo') <= Len(todo)
               /\ \A p \in Paths \ Left' :
                    /\ p \in DOMAIN shader_sources' \/ p \in Paths \ Left
                    /\ shader_sources'[p] \in offered[p]
               /\ pc = "sources" => Paths \ Left' \subseteq DOMAIN shader_sources'
            \/ /\ pc' = next /\ todo' = list
               /\ DOMAIN shader_sources' = Paths
               /\ \A p \in Paths : shader_sources'[p] \in offered[p]
<1>1. UNCHANGED <<disk, shader_program_assets, objects, offered>>
  BY DEF SourceStep
<1>2. CASE pc' = "terminated" /\ UNCHANGED <<todo, shader_sources>>
  BY <1>1, <1>2 DEF TypeOK
<1>3. CASE /\ disk[Head(todo)] # Missing
           /\ ReadSource(Head(todo))
           /\ todo' = IF Len(todo) = 1 THEN list ELSE Tail(todo)
           /\ pc' = IF Len(todo) = 1 THEN next ELSE pc
  <2> DEFINE p == Head(todo)
  <2>1. /\ p \in Paths /\ p \in Left /\ Tail(todo) \in Seq(Paths)
        /\ Left = {p} \cup ToSet(Tail(todo))
        /\ Len(todo) \in Nat /\ Len(Tail(todo)) = Len(todo) - 1
        /\ Len(todo) = 1 => Left = {p}
    BY Visited DEF SourceStep, SourceInv, Left
  <2>2. disk[p] \in Texts /\ disk[p] \in offered[p]
    BY <1>3, <2>1 DEF TypeOK, SourceInv
  <2> HIDE DEF p
  <2>3. shader_sources' = With(shader_sources, p, disk[p])
    BY <1>3 DEF ReadSource, p
  <2>4. /\ DOMAIN shader_sources' = DOMAIN shader_sources \cup {p}
        /\ shader_sources'[p] = disk[p]
        /\ \A x \in DOMAIN shader_sources : x # p => shader_sources'[x] = shader_sources[x]
    BY <2>3 DEF With
  <2>5. PICK P \in SUBSET Paths : shader_sources \in [P -> Texts]
    BY DEF TypeOK
  <2>6. P \cup {p} \in SUBSET Paths /\ shader_sources' \in [P \cup {p} -> Texts]
    BY <2>1, <2>2, <2>3, <2>5 DEF With
  <2>7. \A x \in Paths \ Left : x \in DOMAIN shader_sources
    BY DEF SourceInv
  <2>8. \A x \in (Paths \ Left) \cup {p} :
          x \in DOMAIN shader_sources' /\ shader_sources'[x] \in offered[x]
    BY <2>2, <2>4, <2>7 DEF SourceInv
  <2>9. CASE Len(todo) = 1
    BY <1>1, <1>3, <2>1, <2>4, <2>5, <2>6, <2>8, <2>9
  <2>10. CASE Len(todo) # 1
    <3>1. todo' = Tail(todo) /\ pc' = pc
      BY <1>3, <2>10
    <3>2. Paths \ Left' \subseteq (Paths \ Left) \cup {p}
      BY <2>1, <3>1 DEF Left
    <3>3. todo' \in Seq(Paths) /\ Len(todo') <= Len(todo)
      BY <2>1, <3>1
    <3>4. \A x \in Paths \ Left' :
            x \in DOMAIN shader_sources' /\ shader_sources'[x] \in offered[x]
      BY <2>8, <3>2
    <3>5. shader_sources' \in UNION {[Q -> Texts] : Q \in SUBSET Paths}
      BY <2>6
    <3> QED
      BY <1>1, <2>4, <3>1, <3>3, <3>4, <3>5
  <2> QED
    BY <2>9, <2>10
<1> QED
  BY <1>2, <1>3 DEF SourceStep

\* One turn of a loop over programs.
LEMMA LinkTurn ==
  ASSUME TypeOK, SourceInv, ProgramInv, pc \in {"programs", "compile"}, LinkStep
  PROVE  TypeOK' /\ SourceInv' /\ ProgramInv'
<1> PICK n : n = Head(todo)
  OBVIOUS
<1> PICK o : o = Len(objects) + 1
  OBVIOUS
<1> PICK linked : linked = [p \in Stages[n] |-> shader_sources[p]]
  OBVIOUS
<1>1. /\ todo \in Seq(Names) /\ todo # <<>>
      /\ UNCHANGED <<disk, shader_sources, offered>>
      /\ todo' = Tail(todo) /\ pc' = IF Len(todo) = 1 THEN "run" ELSE pc
  BY DEF LinkStep, ProgramInv
<1>2. /\ n \in Names /\ Tail(todo) \in Seq(Names)
      /\ Left = {n} \cup Left' /\ Len(todo) \in Nat /\ Len(Tail(todo)) = Len(todo) - 1
      /\ Len(todo) = 1 => Left = {n}
  BY <1>1, Visited DEF Left
<1>3. linked \in [Stages[n] -> Texts]
  <2>1. Stages[n] \subseteq Paths
    BY <1>2, ShaderAssumption
  <2>2. shader_sources \in [Paths -> Texts]
    BY DEF TypeOK, SourceInv
  <2> QED
    BY <2>1, <2>2
<1>4. /\ objects' = Append(objects, linked)
      /\ shader_program_assets' = With(shader_program_assets, n, o)
  BY DEF LinkStep, Link
<1>5. /\ Len(objects) \in Nat /\ Len(objects') = o
      /\ DOMAIN objects' = 1 .. o /\ objects'[o] = linked
      /\ \A i \in DOMAIN objects : i \in 1 .. Len(objects) /\ objects'[i] = objects[i]
      /\ \A i \in DOMAIN objects' : i = o \/ i \in DOMAIN objects
  <2>1. objects \in Seq(UNION {[Stages[m] -> Texts] : m \in Names})
    BY DEF TypeOK
  <2> QED
    BY <1>4, <2>1
<1>6. /\ DOMAIN shader_program_assets' = DOMAIN shader_program_assets \cup {n}
      /\ shader_program_assets'[n] = o
      /\ \A m \in DOMAIN shader_program_assets :
           m # n => shader_program_assets'[m] = shader_program_assets[m]
  BY <1>4 DEF With
<1>7. TypeOK'
  <2>1. objects' \in Seq(UNION {[Stages[m] -> Texts] : m \in Names})
    BY <1>2, <1>3, <1>4 DEF TypeOK
  <2>2. PICK N \in SUBSET Names : shader_program_assets \in [N -> 1 .. Len(objects)]
    BY DEF TypeOK
  <2>3. /\ N \cup {n} \in SUBSET Names
        /\ shader_program_assets' \in [N \cup {n} -> 1 .. Len(objects')]
    BY <1>2, <1>4, <1>5, <2>2 DEF With
  <2>4. todo' \in Seq(Paths \cup Names) /\ Len(todo') <= Len(SourceList) + Len(ProgramList)
    <3>1. Len(SourceList) \in Nat /\ Len(ProgramList) \in Nat
      BY ShaderAssumption
    <3> QED
      BY <1>1, <1>2, <3>1 DEF TypeOK
  <2> QED
    BY <1>1, <2>1, <2>3, <2>4 DEF TypeOK
<1>8. SourceInv'
  BY <1>1 DEF SourceInv
<1>9. Built(n)'
  BY <1>1, <1>5, <1>6 DEF Built
<1>10. ASSUME NEW m \in Names \ Left
       PROVE  Built(m)'
  <2>1. Built(m) /\ m # n
    BY <1>2 DEF ProgramInv
  <2>2. shader_program_assets[m] \in DOMAIN objects
    BY <1>5, <2>1 DEF TypeOK, Built
  <2> QED
    BY <1>1, <1>5, <1>6, <2>1, <2>2 DEF Built
<1>11. ProgramInv'
  BY <1>1, <1>2, <1>9, <1>10 DEF ProgramInv
<1> QED
  BY <1>7, <1>8, <1>11

-----------------------------------------------------------------------------
(* The theorems.                                                           *)

\* The manager starts with all sources still to be read.
LEMMA Initial == Init => ShaderInv
<1> SUFFICES ASSUME Init
             PROVE  ShaderInv
  OBVIOUS
<1>1. shader_sources \in [{} -> Texts] /\ shader_program_assets \in [{} -> 1 .. Len(objects)]
  BY DEF Init
<1>2. todo \in Seq(Paths \cup Names) /\ Len(todo) <= Len(SourceList) + Len(ProgramList)
  BY ShaderAssumption DEF Init
<1>3. TypeOK
  <2>1. /\ shader_sources \in UNION {[P -> Texts] : P \in SUBSET Paths}
        /\ shader_program_assets \in UNION {[N -> 1 .. Len(objects)] : N \in SUBSET Names}
    BY <1>1
  <2>2. objects \in Seq(UNION {[Stages[n] -> Texts] : n \in Names})
    BY DEF Init
  <2>3. disk \in [Paths -> Texts \cup {Missing}]
    BY DEF Init
  <2>4. offered \in [Paths -> SUBSET (Texts \cup {Missing})]
    BY <2>3 DEF Init
  <2> QED
    BY <1>2, <2>1, <2>2, <2>3, <2>4 DEF Init, TypeOK
<1>4. Left = Paths
  BY DEF Init, Left, Paths
<1> QED
  BY <1>3, <1>4, ShaderAssumption DEF Init, ShaderInv, SourceInv, ProgramInv

\* Reading, linking, asking for a recompilation and saving a file keep the
\* invariant.
LEMMA Step ==
  ASSUME ShaderInv, [Next]_vars
  PROVE  ShaderInv'
<1> USE DEF ShaderInv
<1>0. /\ Len(SourceList) \in Nat /\ Len(ProgramList) \in Nat
      /\ SourceList \in Seq(Paths) /\ ProgramList \in Seq(Names)
      /\ Paths = ToSet(SourceList) /\ Names = ToSet(ProgramList)
      /\ IsInjective(SourceList) /\ IsInjective(ProgramList)
  BY ShaderAssumption DEF Paths, Names
<1>1. CASE UNCHANGED vars
  <2>1. TypeOK'
    BY <1>1 DEF vars, TypeOK
  <2>2. SourceInv'
    BY <1>1 DEF vars, SourceInv, Left
  <2>3. ProgramInv'
    BY <1>1 DEF vars, ProgramInv, Left, Built
  <2> QED
    BY <2>1, <2>2, <2>3
<1>2. ASSUME pc \in {"sources", "reload"}, NEW next \in {"programs", "compile"},
             pc = "sources" <=> next = "programs",
             NEW list \in Seq(Names), Len(list) = Len(ProgramList), ToSet(list) = Names,
             SourceStep(next, list)
      PROVE  ShaderInv'
  <2>1. /\ UNCHANGED <<disk, shader_program_assets, objects, offered>>
        /\ shader_sources' \in UNION {[P -> Texts] : P \in SUBSET Paths}
        /\ DOMAIN shader_sources \subseteq DOMAIN shader_sources'
    BY <1>2, SourceTurn
  <2>2. CASE pc' = "terminated" /\ UNCHANGED <<todo, shader_sources>>
    BY <2>1, <2>2 DEF TypeOK, SourceInv, ProgramInv
  <2>3. CASE /\ pc' = pc
             /\ todo' \in Seq(Paths) /\ Len(todo') <= Len(todo)
             /\ \A p \in Paths \ Left' :
                  /\ p \in DOMAIN shader_sources' \/ p \in Paths \ Left
                  /\ shader_sources'[p] \in offered[p]
             /\ pc = "sources" => Paths \ Left' \subseteq DOMAIN shader_sources'
    <3>1. TypeOK'
      <4>1. todo' \in Seq(Paths \cup Names) /\ Len(todo') <= Len(SourceList) + Len(ProgramList)
        BY <1>0, <2>3 DEF TypeOK
      <4> QED
        BY <2>1, <2>3, <4>1 DEF TypeOK
    <3>2. SourceInv'
      <4>1. DOMAIN shader_sources' \subseteq Paths
        BY <2>1
      <4> QED
        BY <1>2, <2>1, <2>3, <4>1 DEF SourceInv
    <3>3. ProgramInv'
      BY <1>2, <2>3 DEF ProgramInv
    <3> QED
      BY <3>1, <3>2, <3>3
  <2>4. CASE /\ pc' = next /\ todo' = list
             /\ DOMAIN shader_sources' = Paths
             /\ \A p \in Paths : shader_sources'[p] \in offered[p]
    <3>1. TypeOK'
      <4>1. todo' \in Seq(Paths \cup Names) /\ Len(todo') <= Len(SourceList) + Len(ProgramList)
        BY <1>0, <1>2, <2>4
      <4> QED
        BY <1>2, <2>1, <2>4, <4>1 DEF TypeOK
    <3>2. SourceInv'
      BY <1>2, <2>1, <2>4 DEF SourceInv
    <3>3. ProgramInv'
      BY <1>2, <2>4 DEF ProgramInv, Left
    <3> QED
      BY <3>1, <3>2, <3>3
  <2> QED
    BY <1>2, <2>2, <2>3, <2>4, SourceTurn
<1>3. CASE AddSource
  BY <1>0, <1>2, <1>3 DEF AddSource
<1>4. CASE CreateProgram \/ CompileShader
  BY <1>4, LinkTurn DEF CreateProgram, CompileShader
<1>5. CASE RecompileShaders
  <2>1. /\ pc = "run" /\ pc' = "reload" /\ todo' \in SetToSeqs(Paths)
        /\ offered' = [p \in Paths |-> {disk[p]}]
        /\ UNCHANGED <<disk, shader_sources, shader_program_assets, objects>>
    BY <1>5 DEF RecompileShaders
  <2>2. todo' \in Seq(Paths) /\ Len(todo') = Len(SourceList) /\ Left' = Paths
    BY <1>0, <2>1, Orders DEF Left
  <2>3. TypeOK'
    <3>1. todo' \in Seq(Paths \cup Names) /\ Len(todo') <= Len(SourceList) + Len(ProgramList)
      BY <1>0, <2>2
    <3>2. offered' \in [Paths -> SUBSET (Texts \cup {Missing})]
      BY <2>1 DEF TypeOK
    <3> QED
      BY <2>1, <3>1, <3>2 DEF TypeOK
  <2>4. SourceInv' /\ ProgramInv'
    BY <2>1, <2>2 DEF SourceInv, ProgramInv
  <2> QED
    BY <2>3, <2>4
<1>6. CASE ReloadSource
  <2>1. PICK names \in SetToSeqs(Names) : pc = "reload" /\ SourceStep("compile", names)
    BY <1>6 DEF ReloadSource
  <2>2. names \in Seq(Names) /\ Len(names) = Len(ProgramList) /\ ToSet(names) = Names
    BY <1>0, Orders
  <2> QED
    BY <1>2, <2>1, <2>2
<1>7. CASE SaveFile
  <2>1. PICK p \in Paths, t \in Texts \cup {Missing} :
          /\ disk' = [disk EXCEPT ![p] = t]
          /\ offered' = [offered EXCEPT ![p] = @ \cup {t}]
    BY <1>7 DEF SaveFile
  <2>2. UNCHANGED <<shader_sources, shader_program_assets, objects, pc, todo>>
    BY <1>7 DEF SaveFile
  <2>3. \A x \in Paths : disk'[x] \in offered'[x] /\ offered[x] \subseteq offered'[x]
    BY <2>1 DEF TypeOK, SourceInv
  <2>4. TypeOK'
    BY <2>1, <2>2 DEF TypeOK
  <2>5. SourceInv'
    BY <2>2, <2>3 DEF SourceInv, Left
  <2>6. ProgramInv'
    BY <2>2 DEF ProgramInv, Left, Built
  <2> QED
    BY <2>4, <2>5, <2>6
<1> QED
  BY <1>1, <1>3, <1>4, <1>5, <1>6, <1>7 DEF Next

\* The inductive invariant of the shader manager, of which the theorems below
\* are consequences.
THEOREM Invariance == Spec => []ShaderInv
BY Initial, Step, PTL DEF Spec

\* Every program names a program object, every one of those was linked from
\* complete texts, and a loop's list is never longer than both lists.
THEOREM ShaderTypeCorrect == Spec => []TypeOK
<1>1. ShaderInv => TypeOK
  BY DEF ShaderInv
<1> QED
  BY Invariance, <1>1, PTL

\* Between recompilations all programs run the texts the manager holds, in
\* whatever order they were read and linked.
THEOREM ProgramsMatchSources == Spec => []BuiltFromSources
<1>1. ShaderInv => BuiltFromSources
  BY DEF ShaderInv, ProgramInv, Built, BuiltFromSources
<1> QED
  BY Invariance, <1>1, PTL

\* A recompilation links no text that was out of date when it was asked for.
THEOREM RecompilationIsFresh == Spec => []RecompileIsFresh
<1>1. ShaderInv => RecompileIsFresh
  BY DEF ShaderInv, SourceInv, RecompileIsFresh
<1> QED
  BY Invariance, <1>1, PTL
=============================================================================
