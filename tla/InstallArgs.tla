---------------------------- MODULE InstallArgs ----------------------------
(***************************************************************************)
(* The first half of install.sh, up to the module loop: the argument       *)
(* parser, reading the profile and selecting modules.  A word of the       *)
(* command line is a record: which option it is ("word" for none) and its  *)
(* text, or the text after = for --profile=<name>.  A line of a profile    *)
(* file is what is left of it once comments and blanks are stripped.       *)
(***************************************************************************)
EXTENDS Integers, Sequences, SequencesExt, Filter

CONSTANTS
  Words,          \* words of a command line
  MaxArgs,        \* bound: words on a command line
  ProfileFiles,   \* name -> lines of profiles/<name>.conf
  CANONICAL_MODULES

VARIABLES
  argv,       \* the command line
  args,       \* what the parser has left of it
  profile,    \* PROFILE
  dryRun,     \* DRY_RUN
  selected,   \* SELECTED
  outcome     \* "parsing", "help", "die", "dry" or "run" (the module loop)

vars == <<argv, args, profile, dryRun, selected, outcome>>

ASSUME ArgsAssumption ==
  /\ MaxArgs \in Nat
  /\ "" \notin DOMAIN ProfileFiles
  /\ ProfileFiles \in [DOMAIN ProfileFiles -> Seq(STRING)]
  /\ CANONICAL_MODULES \in Seq(STRING)
  /\ IsInjective(CANONICAL_MODULES)
  /\ \A w \in Words :
       w.opt \in {"--profile", "--profile=", "--dry-run", "--help", "word"}

Init ==
  /\ argv \in UNION {[1..n -> Words] : n \in 0..MaxArgs}
  /\ args = argv
  /\ profile = ""
  /\ dryRun = FALSE
  /\ selected = << >>
  /\ outcome = "parsing"

IsNext(opt) ==
  /\ outcome = "parsing"
  /\ args # << >>
  /\ Head(args).opt = opt

\* PROFILE="${2:-}"; shift 2, which shifts nothing when one word is left.
ParseProfile ==
  /\ IsNext("--profile")
  /\ IF Len(args) >= 2 THEN profile' = args[2].val /\ args' = SubSeq(args, 3, Len(args))
                       ELSE profile' = "" /\ args' = args
  /\ UNCHANGED <<argv, dryRun, selected, outcome>>

ParseProfileEq ==
  /\ IsNext("--profile=")
  /\ profile' = Head(args).val
  /\ args' = Tail(args)
  /\ UNCHANGED <<argv, dryRun, selected, outcome>>

\* Fault: the option is accepted and ignored.
ParseDryRunIgnored ==
  /\ IsNext("--dry-run")
  /\ args' = Tail(args)
  /\ UNCHANGED <<argv, profile, dryRun, selected, outcome>>

ParseDryRun ==
  /\ IsNext("--dry-run")
  /\ dryRun' = TRUE
  /\ args' = Tail(args)
  /\ UNCHANGED <<argv, profile, selected, outcome>>

\* Help exits at once, an unknown word dies at once.
ParseStops ==
  /\ \/ IsNext("--help") /\ outcome' = "help"
     \/ IsNext("word") /\ outcome' = "die"
  /\ UNCHANGED <<argv, args, profile, dryRun, selected>>

-----------------------------------------------------------------------------
\* REQUESTED: the lines that are not empty.
Requested(p) == Keep(ProfileFiles[p], ToSet(ProfileFiles[p]) \ {""})

IsCanonical(m) == m \in ToSet(CANONICAL_MODULES)

\* Fault: the modules run in the order of the file.
SelectInFileOrder(requested) == requested

\* SELECTED: canonical order, each module once.
Select(requested) == Keep(CANONICAL_MODULES, ToSet(requested))

ProfileValid ==
  /\ profile \in DOMAIN ProfileFiles
  /\ \A m \in ToSet(Requested(profile)) : IsCanonical(m)

\* A missing or unknown profile, or one with an unknown module, stops here.
ProfileRejected ==
  /\ outcome = "parsing"
  /\ args = << >>
  /\ ~ProfileValid
  /\ outcome' = "die"
  /\ UNCHANGED <<argv, args, profile, dryRun, selected>>

\* A dry run ends before an empty selection is refused.
ProfileResolved ==
  /\ outcome = "parsing"
  /\ args = << >>
  /\ ProfileValid
  /\ selected' = Select(Requested(profile))
  /\ outcome' = IF dryRun THEN "dry" ELSE IF selected' = << >> THEN "die" ELSE "run"
  /\ UNCHANGED <<argv, args, profile, dryRun>>

Next ==
  \/ ParseProfile \/ ParseProfileEq \/ ParseDryRun \/ ParseStops
  \/ ProfileRejected \/ ProfileResolved

Spec == Init /\ [][Next]_vars

FairSpec == Spec /\ WF_vars(Next)

-----------------------------------------------------------------------------
\* Whatever gets past the parser runs each requested module once, in canonical
\* order, from a profile that exists and names only known modules, and that the
\* command line named (install.sh 47-79).
SelectionCanonical ==
  outcome \in {"run", "dry"} =>
    /\ \E i \in 1..Len(argv) :
         /\ argv[i].val = profile
         /\ argv[i].opt = "--profile=" \/ (i > 1 /\ argv[i - 1].opt = "--profile")
    /\ ToSet(selected) = ToSet(ProfileFiles[profile]) \ {""}
    /\ IsInjective(selected)
    /\ \A i, j \in 1..Len(selected) : i < j =>
         \E a, b \in 1..Len(CANONICAL_MODULES) :
           a < b /\ CANONICAL_MODULES[a] = selected[i] /\ CANONICAL_MODULES[b] = selected[j]

\* A command line that holds --dry-run installs nothing, unless the word was
\* taken for the name of a profile.
DryRunHarmless ==
  outcome = "run" =>
    \A i \in 1..Len(argv) :
      argv[i].opt = "--dry-run" => i > 1 /\ argv[i - 1].opt = "--profile"

\* Design spec:87, "`--profile <name>` required. Missing/unknown -> print
\* available profiles [...], exit non-zero": the parser ends on every command
\* line.  With --profile as the last word, shift 2 fails and the loop spins.
ParserTerminates == <>(outcome # "parsing")
=============================================================================
