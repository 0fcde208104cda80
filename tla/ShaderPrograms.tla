----------------------------- MODULE ShaderPrograms -----------------------------
(***************************************************************************)
(* rendering::ShaderManager: the sources of the shaders, the programs      *)
(* linked from them, and "Recompile Shaders", which reads every source     *)
(* again and then links every program again.                               *)
(*                                                                         *)
(* The files belong to someone else, who may save or remove one between    *)
(* any two steps.  A source that cannot be read throws, and nothing in the *)
(* program catches it.  Whether a program links is not told apart: a       *)
(* failure is logged and the new object is used all the same.              *)
(***************************************************************************)
EXTENDS Naturals, Sequences, Functions, SequencesExt

CONSTANTS
  Texts,          \* contents of a shader file
  Missing,        \* a file that cannot be opened
  SourceList,     \* paths, in the order ResourceManager::init() adds them
  ProgramList,    \* access names, in the order it creates them
  Stages,         \* the paths each program is linked from
  MaxObjects      \* bound on program objects

Paths == ToSet(SourceList)
Names == ToSet(ProgramList)

ASSUME ShaderAssumption ==
  /\ Missing \notin Texts
  /\ SourceList \in Seq(Paths) /\ IsInjective(SourceList)
  /\ ProgramList \in Seq(Names) /\ IsInjective(ProgramList)
  /\ Stages \in [Names -> SUBSET Paths]
  /\ MaxObjects \in Nat

VARIABLES
  disk,                  \* the files
  shader_sources,        \* the text held for each path
  shader_program_assets, \* the program object of each access name
  objects,               \* the texts each program object was linked from
  pc,                    \* sources, programs, run, reload, compile, terminated
  todo,                  \* paths or names the current loop has not reached
  offered                \* history: what each file has held since the sources
                         \* were last asked for

vars == <<disk, shader_sources, shader_program_assets, objects, pc, todo, offered>>

TypeOK ==
  /\ disk \in [Paths -> Texts \cup {Missing}]
  /\ shader_sources \in UNION {[P -> Texts] : P \in SUBSET Paths}
  /\ shader_program_assets \in
       UNION {[N -> 1 .. Len(objects)] : N \in SUBSET Names}
  /\ objects \in Seq(UNION {[Stages[n] -> Texts] : n \in Names})
  /\ pc \in {"sources", "programs", "run", "reload", "compile", "terminated"}
  /\ todo \in Seq(Paths \cup Names) /\ Len(todo) <= Len(SourceList) + Len(ProgramList)
  /\ offered \in [Paths -> SUBSET (Texts \cup {Missing})]

Init ==
  /\ disk \in [Paths -> Texts]
  /\ shader_sources = <<>>
  /\ shader_program_assets = <<>>
  /\ objects = <<>>
  /\ pc = "sources"
  /\ todo = SourceList
  /\ offered = [p \in Paths |-> {disk[p]}]

-----------------------------------------------------------------------------

With(f, x, v) == [y \in DOMAIN f \cup {x} |-> IF y = x THEN v ELSE f[y]]

\* Fault: what is there stays, as in add_source().
InsertSource(p) ==
  shader_sources' = IF p \in DOMAIN shader_sources THEN shader_sources
                    ELSE With(shader_sources, p, disk[p])

\* ShaderSource(path), and its place in the map.
ReadSource(p) == shader_sources' = With(shader_sources, p, disk[p])

\* A step of a loop over sources: at a file it cannot open the program ends.
SourceStep(next, list) ==
  /\ todo # <<>>
  /\ \/ /\ disk[Head(todo)] # Missing
        /\ ReadSource(Head(todo))
        /\ todo' = IF Len(todo) = 1 THEN list ELSE Tail(todo)
        /\ pc' = IF Len(todo) = 1 THEN next ELSE pc
     \/ /\ disk[Head(todo)] = Missing
        /\ pc' = "terminated"
        /\ UNCHANGED <<todo, shader_sources>>
  /\ UNCHANGED <<disk, shader_program_assets, objects, offered>>

\* Fault: the texts come from the files.
LinkFromDisk(n) ==
  /\ objects' = Append(objects, [p \in Stages[n] |->
                  IF disk[p] = Missing THEN shader_sources[p] ELSE disk[p]])
  /\ shader_program_assets' = With(shader_program_assets, n, Len(objects) + 1)

\* compile_shader(): a new program object, linked from the sources held.  The
\* one it replaces is not deleted.
Link(n) ==
  /\ objects' = Append(objects, [p \in Stages[n] |-> shader_sources[p]])
  /\ shader_program_assets' = With(shader_program_assets, n, Len(objects) + 1)

LinkStep ==
  /\ todo # <<>>
  /\ Link(Head(todo))
  /\ todo' = Tail(todo)
  /\ pc' = IF Len(todo) = 1 THEN "run" ELSE pc
  /\ UNCHANGED <<disk, shader_sources, offered>>

\* ResourceManager::init().
AddSource == pc = "sources" /\ SourceStep("programs", ProgramList)
CreateProgram == pc = "programs" /\ LinkStep

\* The button: the maps are unordered, so both loops go in any order.
RecompileShaders ==
  /\ pc = "run"
  /\ Len(objects) + Len(ProgramList) <= MaxObjects
  /\ pc' = "reload"
  /\ todo' \in SetToSeqs(Paths)
  /\ offered' = [p \in Paths |-> {disk[p]}]
  /\ UNCHANGED <<disk, shader_sources, shader_program_assets, objects>>

ReloadSource ==
  /\ pc = "reload"
  /\ \E names \in SetToSeqs(Names) : SourceStep("compile", names)

CompileShader == pc = "compile" /\ LinkStep

\* Whoever writes the shaders saves or removes a file.
SaveFile ==
  \E p \in Paths, t \in Texts \cup {Missing} :
    /\ t # disk[p]
    /\ disk' = [disk EXCEPT ![p] = t]
    /\ offered' = [offered EXCEPT ![p] = @ \cup {t}]
    /\ UNCHANGED <<shader_sources, shader_program_assets, objects, pc, todo>>

Next ==
  \/ AddSource \/ CreateProgram
  \/ RecompileShaders \/ ReloadSource \/ CompileShader
  \/ SaveFile

Spec == Init /\ [][Next]_vars

-----------------------------------------------------------------------------
(* Properties.                                                             *)

\* Between recompilations every program is linked from exactly the texts the
\* manager holds, so two programs that share a shader run the same version of
\* it, whatever is saved while they are linked.
BuiltFromSources ==
  pc = "run" =>
    \A n \in Names :
      objects[shader_program_assets[n]] = [p \in Stages[n] |-> shader_sources[p]]

\* What recompile_shaders() links was on disk after it was asked to: it never
\* falls back to a version that was already out of date then.
RecompileIsFresh ==
  pc \in {"compile", "run"} =>
    \A p \in Paths : shader_sources[p] \in offered[p]
=============================================================================
