------------------------------- MODULE Loader -------------------------------
(***************************************************************************)
(* How a compilation finds its source files (compiler.rs): the root file,  *)
(* then the file of every module that is instantiated and not yet known,   *)
(* looked for next to the file that instantiates it and in the search      *)
(* paths.                                                                  *)
(*                                                                         *)
(* A path is <<directory, module name, extension>>.  A disk is a record    *)
(*   real   : existing path -> canonical path (links are resolved)         *)
(*   source : canonical path -> its text, [parses, modules]                *)
(* and a module of a text has a name and the instances it declares, each   *)
(* with the name of its module.  What else a module has is of no concern   *)
(* here.  The disk does not change while a compilation runs.               *)
(***************************************************************************)
EXTENDS Naturals, Sequences, FiniteSetsExt

CONSTANTS
  SearchPaths, \* the compiler's search paths, a sequence of directories
  Disks,       \* the disks a compilation may find
  Roots        \* the calls: compile_file or compile_str, with the root's path

VARIABLES
  disk,     \* the disk
  call,     \* the call of the client
  status,   \* "start", "loading", "loaded" or an error
  cursor,   \* the next instantiation of the current file: its module, its place
  pending,  \* pending_paths: files to parse, the last one first
  seen,     \* seen_paths: the root and every path ever pending
  provided, \* provided_modules: module -> the file that defines it
  files     \* the files registered, in order, each [path, modules]

\* A sequence, of whatever elements.
IsSequence(s) == s \in Seq({s[k] : k \in DOMAIN s})

\* The modules of a text, and their instances, are sequences.
IsText(text) ==
  text.parses => /\ IsSequence(text.modules)
                 /\ \A k \in 1..Len(text.modules) : IsSequence(text.modules[k].instances)

\* A canonical path leads to a text.
LoaderAssumption ==
  /\ IsSequence(SearchPaths)
  /\ \A d \in Disks :
       /\ \A p \in DOMAIN d.real : d.real[p] \in DOMAIN d.source
       /\ \A p \in DOMAIN d.source : IsText(d.source[p])
  /\ \A c \in Roots : c.op = "str" => IsText(c.text)
ASSUME LoaderAssumption

loading == <<disk, call, status, cursor, pending, seen, provided, files>>

-----------------------------------------------------------------------------
\* resolve_module_path: as .sv everywhere before as .v anywhere, next to the
\* instantiating file before the search paths.
Places(dir) == <<dir>> \o SearchPaths

Candidate(name, dir, k) ==
  LET n == Len(Places(dir))
  IN  IF k <= n THEN <<Places(dir)[k], name, "sv">> ELSE <<Places(dir)[k - n], name, "v">>

Found(name, dir) ==
  {k \in 1..(2 * Len(Places(dir))) : Candidate(name, dir, k) \in DOMAIN disk.real}

Resolves(name, dir) == Found(name, dir) # {}
Resolved(name, dir) == disk.real[Candidate(name, dir, Min(Found(name, dir)))]

Dir(path) == path[1]

NamesIn(modules) == {modules[k].name : k \in 1..Len(modules)}

\* A name two modules of one file have, or that another file has provided.
Duplicates(modules) ==
  {modules[k].name : k \in {j \in 1..Len(modules) :
     \/ modules[j].name \in DOMAIN provided
     \/ \E i \in 1..(j - 1) : modules[i].name = modules[j].name}}

\* The file registered last, and its instantiation at the cursor.
Current    == files[Len(files)]
InModule   == files # <<>> /\ cursor[1] <= Len(Current.modules)
MoreWanted == InModule /\ cursor[2] <= Len(Current.modules[cursor[1]].instances)
Wanted     == Current.modules[cursor[1]].instances[cursor[2]].module
CurrentDir == Dir(Current.path)
NextCursor == <<cursor[1], cursor[2] + 1>>

-----------------------------------------------------------------------------
Init ==
  /\ disk \in Disks
  /\ call \in Roots
  /\ status = "start"
  /\ cursor = <<1, 1>> /\ pending = <<>> /\ files = <<>>
  /\ seen = {} /\ provided = [n \in {} |-> <<>>]

Stop(error) ==
  /\ status' = error
  /\ UNCHANGED <<disk, call, cursor, pending, seen, provided, files>>

\* The first half of register_source_file: all modules of the file are
\* provided before any of its instantiations is looked at.
Register(path, modules) ==
  /\ provided' = [n \in DOMAIN provided \cup NamesIn(modules) |->
                    IF n \in NamesIn(modules) THEN path ELSE provided[n]]
  /\ cursor' = <<1, 1>>
  /\ files' = Append(files, [path |-> path, modules |-> modules])

\* compile_file reads the root from the disk by its canonical path;
\* compile_str is given the text and keeps the path as it is written.
RootExists == call.op = "str" \/ call.path \in DOMAIN disk.real
RootPath   == IF call.op = "str" THEN call.path ELSE disk.real[call.path]
RootText   == IF call.op = "str" THEN call.text ELSE disk.source[RootPath]

RootFails ==
  /\ status = "start"
  /\ \/ ~RootExists /\ Stop("io")
     \/ RootExists /\ ~RootText.parses /\ Stop("parse")
     \/ RootExists /\ RootText.parses /\ RootText.modules = <<>> /\ Stop("empty")

\* Fault: the root's path is not remembered.
RootForgotten ==
  /\ status = "start"
  /\ RootExists /\ RootText.parses /\ RootText.modules # <<>>
  /\ IF Duplicates(RootText.modules) # {}
     THEN Stop("duplicate")
     ELSE /\ status' = "loading"
          /\ UNCHANGED seen
          /\ Register(RootPath, RootText.modules)
          /\ UNCHANGED <<disk, call, pending>>

LoadRoot ==
  /\ status = "start"
  /\ RootExists /\ RootText.parses /\ RootText.modules # <<>>
  /\ IF Duplicates(RootText.modules) # {}
     THEN Stop("duplicate")
     ELSE /\ status' = "loading"
          /\ seen' = {RootPath}
          /\ Register(RootPath, RootText.modules)
          /\ UNCHANGED <<disk, call, pending>>

\* An instantiation of a module that is known, or that is found nowhere.
Known   == Wanted \in DOMAIN provided
Missing == ~Known /\ ~Resolves(Wanted, CurrentDir)

\* Fault: a file becomes pending once for every instantiation.
PendingAgain ==
  /\ status = "loading" /\ MoreWanted
  /\ IF Missing THEN Stop("not found")
     ELSE /\ cursor' = NextCursor
          /\ pending' = IF Known THEN pending ELSE Append(pending, Resolved(Wanted, CurrentDir))
          /\ UNCHANGED <<disk, call, status, seen, provided, files>>

\* The second half of register_source_file, one instantiation: its file is
\* pending unless the module is known or the file was pending before.
Instantiation ==
  /\ status = "loading" /\ MoreWanted
  /\ IF Missing THEN Stop("not found")
     ELSE /\ cursor' = NextCursor
          /\ IF Known
             THEN UNCHANGED <<pending, seen>>
             ELSE LET path == Resolved(Wanted, CurrentDir)
                  IN  /\ seen' = seen \cup {path}
                      /\ pending' = IF path \in seen THEN pending ELSE Append(pending, path)
          /\ UNCHANGED <<disk, call, status, provided, files>>

\* On to the next module of the file.
NextModule ==
  /\ status = "loading" /\ InModule /\ ~MoreWanted
  /\ cursor' = <<cursor[1] + 1, 1>>
  /\ UNCHANGED <<disk, call, status, pending, seen, provided, files>>

\* The next file is the one that became pending last.
LoadNext ==
  /\ status = "loading" /\ ~InModule /\ pending # <<>>
  /\ LET path == pending[Len(pending)]
         text == disk.source[path]
     IN  IF ~text.parses THEN Stop("parse")
         ELSE IF Duplicates(text.modules) # {} THEN Stop("duplicate")
         ELSE /\ pending' = SubSeq(pending, 1, Len(pending) - 1)
              /\ Register(path, text.modules)
              /\ UNCHANGED <<disk, call, status, seen>>

Loaded ==
  /\ status = "loading" /\ ~InModule /\ pending = <<>>
  /\ Stop("loaded")

Load == RootFails \/ LoadRoot \/ Instantiation \/ NextModule \/ LoadNext \/ Loaded

\* Loading by itself.
LoadSpec == Init /\ [][Load]_loading

-----------------------------------------------------------------------------
\* A module reported as defined twice has two definitions: no file is read
\* against itself, however many instantiations, links and search paths lead
\* to it (seen_paths, canonicalize).
DuplicatesAreReal ==
  status = "duplicate" /\ files # <<>> =>
    pending[Len(pending)] \notin {files[k].path : k \in 1..Len(files)}

\* A library as the loader expects it: one module to a file, which has its
\* name, and one file of a name, by whatever path.
Conventional ==
  /\ \A p \in DOMAIN disk.real : disk.real[p][2] = p[2]
  /\ \A p \in DOMAIN disk.source :
       disk.source[p].parses => Len(disk.source[p].modules) = 1
                                /\ disk.source[p].modules[1].name = p[2]
  /\ \A p, q \in DOMAIN disk.source : p[2] = q[2] => p = q

\* Where an instantiation leads to some file, it got the module from there.
GotItsFile(file, inst) ==
  Resolves(inst.module, Dir(file.path)) =>
    inst.module \in DOMAIN provided /\ provided[inst.module] = Resolved(inst.module, Dir(file.path))

\* Of such a library nothing is refused as defined twice, and every
\* instantiation gets the module of the file it leads to, whichever file led
\* there first and in whatever order they were parsed (register_source_file).
ConventionLoads ==
  Conventional /\ call.op = "file" =>
    /\ status # "duplicate"
    /\ status = "loaded" =>
         \A file \in {files[k] : k \in 1..Len(files)} :
           \A m \in 1..Len(file.modules) : \A j \in 1..Len(file.modules[m].instances) :
             GotItsFile(file, file.modules[m].instances[j])
=============================================================================
