--------------------------- MODULE CMakeConfigure ---------------------------
(***************************************************************************)
(* CMakeLists.txt as the program it is: each configuration of a build tree *)
(* runs the file from the top with fresh variables, but with the cache     *)
(* that the runs before it left.  Between runs the user installs and       *)
(* removes npcap and Protobuf, and sets NPCAP_ROOT and BUILD_TESTING.      *)
(***************************************************************************)
CONSTANTS
    Roots,          \* directories npcap may be installed in
    DefaultRoot,    \* C:/npcap
    Unset,          \* a variable that is not in the cache, a missing directory
    Windows, Msvc,  \* WIN32, MSVC
    SourceTree      \* the directories of the repository that CMake can add

ASSUME CMakeAssumption ==
    /\ DefaultRoot \in Roots
    /\ Unset \notin Roots
    /\ Windows \in BOOLEAN /\ Msvc \in BOOLEAN
    /\ \A libraries \in SUBSET {"wpcap", "Packet"} : Unset # libraries

Libraries == {"wpcap", "Packet"}

Installations == {Unset} \cup SUBSET Libraries

Parts == {"src/Common", "src/Core", "src/Networking", "src/Server",
          "src/Client", "src/Admin"}

Extras == {"tests", "tools/NetworkAnalyzer"}

Options == {"WIN32 definitions", "/W4 /WX", "-Wall -Wextra -Werror", "HAVE_NPCAP"}

VARIABLES
    installed,  \* what each root holds, or Unset where it does not exist
    protobuf,   \* whether find_package can find Protobuf
    cache,      \* NPCAP_ROOT, the results of find_library, BUILD_TESTING
    pc,         \* the section of the file that comes next
    run,        \* this run's variables, options, targets and errors
    previous,   \* the run before, if nothing was touched since
    moved       \* whether NPCAP_ROOT was ever changed from one root to another

vars == <<installed, protobuf, cache, pc, run, previous, moved>>

FreshRun == [headers |-> Unset, found |-> FALSE, options |-> {},
             targets |-> {}, errors |-> {}]

Init ==
    /\ installed \in [Roots -> Installations]
    /\ protobuf \in BOOLEAN
    /\ cache = [root |-> Unset, library |-> [l \in Libraries |-> Unset],
                testing |-> FALSE]
    /\ pc = "idle"
    /\ run = FreshRun
    /\ previous = Unset
    /\ moved = FALSE

-----------------------------------------------------------------------------
(* The user, between runs.                                                 *)

Touch == pc = "idle" /\ previous' = Unset /\ UNCHANGED <<pc, run>>

Install(r, what) ==
    /\ Touch
    /\ installed' = [installed EXCEPT ![r] = what]
    /\ UNCHANGED <<protobuf, cache, moved>>

InstallProtobuf(p) ==
    /\ Touch
    /\ protobuf' = p
    /\ UNCHANGED <<installed, cache, moved>>

\* cmake -DNPCAP_ROOT=r leaves the other entries of the cache as they are.
SetRoot(r) ==
    /\ Touch
    /\ cache' = [cache EXCEPT !.root = r]
    /\ moved' = (moved \/ cache.root \notin {r, Unset})
    /\ UNCHANGED <<installed, protobuf>>

SetTesting(b) ==
    /\ Touch
    /\ cache' = [cache EXCEPT !.testing = b]
    /\ UNCHANGED <<installed, protobuf, moved>>

-----------------------------------------------------------------------------
(* One run, section by section.                                            *)

Section(from, to) ==
    /\ pc = from
    /\ pc' = to
    /\ UNCHANGED <<installed, protobuf, moved>>

Settings ==
    /\ Section("idle", "protobuf")
    /\ run' = [run EXCEPT !.options = IF Windows THEN {"WIN32 definitions"} ELSE {}]
    /\ UNCHANGED <<cache, previous>>

\* REQUIRED: without the package the run ends here.
FindProtobuf ==
    /\ Section("protobuf", IF protobuf THEN "npcap" ELSE "end")
    /\ run' = [run EXCEPT !.errors = IF protobuf THEN {} ELSE {"Protobuf"}]
    /\ UNCHANGED <<cache, previous>>

\* set(... CACHE PATH ...) is a default: it never replaces a cached value.
Root == IF cache.root = Unset THEN DefaultRoot ELSE cache.root

\* MUTANT: the answer of the first run is final, NOTFOUND too.
FindLibrary_Once(l) ==
    IF cache.library[l] # Unset \/ cache.root # Unset THEN cache.library[l]
    ELSE IF l \in installed[Root] THEN Root ELSE Unset

\* MUTANT: the search uses the root of the cache, which the first run sets late.
FindLibrary_RootTooLate(l) ==
    IF cache.library[l] # Unset THEN cache.library[l]
    ELSE IF cache.root # Unset /\ l \in installed[Root] THEN Root ELSE Unset

\* MUTANT: without NO_DEFAULT_PATH another installation will do.
FindLibrary_Anywhere(l) ==
    IF cache.library[l] # Unset THEN cache.library[l]
    ELSE IF l \in installed[Root] THEN Root
    ELSE IF \E r \in Roots : installed[r] # Unset /\ l \in installed[r]
         THEN CHOOSE r \in Roots : installed[r] # Unset /\ l \in installed[r]
         ELSE Unset

\* find_library searches only when no library is cached, under the root alone;
\* a search that failed is made again by the next run.
FindLibrary(l) ==
    IF cache.library[l] # Unset THEN cache.library[l]
    ELSE IF l \in installed[Root] THEN Root ELSE Unset

FindNpcap ==
    /\ Section("npcap", "parts")
    /\ IF Windows /\ installed[Root] # Unset
       THEN LET library == [l \in Libraries |-> FindLibrary(l)]
            IN  /\ cache' = [cache EXCEPT !.root = Root, !.library = library]
                /\ run' = [run EXCEPT
                             !.headers = Root,
                             !.found = \A l \in Libraries : library[l] # Unset]
       ELSE /\ cache' = [cache EXCEPT !.root = IF Windows THEN Root ELSE @]
            /\ UNCHANGED run
    /\ UNCHANGED previous

\* A subdirectory takes the options set so far; one that does not exist is an
\* error, after which the run goes on.
AddSubdirectories(dirs) ==
    run' = [run EXCEPT
              !.targets = @ \cup ((dirs \cap SourceTree) \X {run.options}),
              !.errors = @ \cup (dirs \ SourceTree)]

AddParts ==
    /\ Section("parts", "extras")
    /\ AddSubdirectories(Parts)
    /\ UNCHANGED <<cache, previous>>

AddExtras ==
    /\ Section("extras", "options")
    /\ AddSubdirectories((IF cache.testing THEN {"tests"} ELSE {})
                             \cup (IF run.found THEN {"tools/NetworkAnalyzer"} ELSE {}))
    /\ UNCHANGED <<cache, previous>>

\* These come last in the file, so no subdirectory takes them.
GlobalOptions ==
    /\ Section("options", "end")
    /\ run' = [run EXCEPT !.options =
                   @ \cup {IF Msvc THEN "/W4 /WX" ELSE "-Wall -Wextra -Werror"}
                     \cup (IF run.found THEN {"HAVE_NPCAP"} ELSE {})]
    /\ UNCHANGED <<cache, previous>>

End ==
    /\ Section("end", "idle")
    /\ previous' = run
    /\ run' = FreshRun
    /\ UNCHANGED cache

Next ==
    \/ \E r \in Roots : SetRoot(r) \/ \E what \in Installations : Install(r, what)
    \/ \E b \in BOOLEAN : InstallProtobuf(b) \/ SetTesting(b)
    \/ Settings \/ FindProtobuf \/ FindNpcap \/ AddParts \/ AddExtras
    \/ GlobalOptions \/ End

Spec == Init /\ [][Next]_vars

-----------------------------------------------------------------------------
(* Correctness.                                                            *)

\* Every variable has the type of the directory, cache or run it stands for.
TypeOK ==
    /\ installed \in [Roots -> Installations]
    /\ protobuf \in BOOLEAN
    /\ cache \in [root : Roots \cup {Unset},
                  library : [Libraries -> Roots \cup {Unset}],
                  testing : BOOLEAN]
    /\ pc \in {"idle", "protobuf", "npcap", "parts", "extras", "options", "end"}
    /\ run \in [headers : Roots \cup {Unset}, found : BOOLEAN,
                options : SUBSET Options,
                targets : SUBSET (SourceTree \X SUBSET Options),
                errors : SUBSET ({"Protobuf"} \cup Parts \cup Extras)]
    /\ moved \in BOOLEAN

\* What the cache carries over changes no outcome: a second run with nothing
\* touched in between ends as the first did.
RerunIsSame == pc = "end" /\ previous # Unset => run = previous

\* A failed search is not remembered: once npcap is complete under NPCAP_ROOT,
\* the next run finds it, in a build tree however old.
InstalledIsFound ==
    pc = "extras" /\ Windows /\ installed[Root] = Libraries => run.found

\* The headers and both libraries come from one installation, and it is the
\* one NPCAP_ROOT names.
OneInstallation ==
    run.found => \A l \in Libraries : cache.library[l] = run.headers

\* The headers and both libraries come from the one installation NPCAP_ROOT
\* names, in a build tree where NPCAP_ROOT never moved from root to root.
OneInstallationUnlessMoved == ~moved => OneInstallation

=============================================================================
