----------------------------- MODULE HostConfig -----------------------------
(***************************************************************************)
(* One host's config.json and the package beside it, under the clients     *)
(* that drive it: `host add` and `host set` (connect.py), `host bootstrap` *)
(* and the ship that a submit makes first (bootstrap.py), each a sequence  *)
(* of separate ssh calls with no lock on the host.  A command reads the    *)
(* file, decides, and writes through write_config, which reads it again,   *)
(* merges the keys of its patch and renames; any call may be its last.     *)
(* Each client keeps what it last read of the host (HostCache), which is   *)
(* what a host whose home was wiped is restored from.                      *)
(***************************************************************************)
EXTENDS Naturals, FiniteSets

CONSTANTS
  Clients,
  Cards,        \* the host's cards, each of which its UUID names
  Indices,      \* the other names of a card: the numbers nvidia-smi gives it
  CardAt,       \* CardAt[i]: the card that number i is on the host, or None
  BuildOf,      \* BuildOf[c]: the build that client c runs and ships
  None,         \* no build, and no file
  Broken,       \* a file that holds no document
  All,          \* the `gpus` that is every card not shared
  MaxCommands,  \* bound: commands begun
  MaxWipes,     \* bound: homes wiped, or files broken, by hand
  Assumed       \* what is assumed of the commands

\* "whole": no other write falls between write_config's own read and its rename.
\* "cards", "env": nobody else writes these keys between a command's first read,
\* on which it judged or resolved them, and its write.  "first": nobody else gives
\* the host a config between a command's finding none and its write.  "tables": the
\* table of cards that a client resolves names through (gpu_info: a probe's, or
\* what was recorded of one) lists them as the host does.  "ships": a ship, up
\* to its commit in the config, is neither cut short nor overlapped by another.
ASSUME HostConfigAssumption ==
  /\ Assumed \subseteq {"whole", "cards", "env", "first", "tables", "ships"}
  /\ {MaxCommands, MaxWipes} \subseteq Nat
  /\ Cards \cap Indices = {} /\ None \notin Cards /\ CardAt \in [Indices -> Cards \cup {None}]
  /\ None \notin {BuildOf[c] : c \in Clients} /\ None # Broken

VARIABLES
  config,  \* config.json: a document, None, or Broken
  pkg,     \* the build under pkg/, or None
  cmd,     \* cmd[c]: the command that c runs
  cache,   \* cache[c]: c's copy of the document, or None
  begun,   \* commands begun
  wiped    \* homes wiped and files broken

vars == <<config, pkg, cmd, cache, begun, wiped>>

Keys == {"idle_minutes", "gpus", "shared_gpus", "env", "pkg_commit"}
\* What a command may be about: the keys, the environment one variable at a time.
AllLeaves == {"idle_minutes", "gpus", "shared_gpus", "user", "cache", "pkg_commit"}
Builds == {BuildOf[c] : c \in Clients}
\* "user" is a variable that a person set, "cache" one that bootstrap derives.
Env == [user : {0, 1}, cache : {0, 1}]
\* Cards are named in a config by UUID or by number.
Names == Cards \cup Indices
Gpus == (SUBSET Names) \cup {All}
Document == [idle_minutes : {0, 1}, gpus : Gpus, shared_gpus : SUBSET Names, env : Env,
             pkg_commit : Builds \cup {None}]

ASSUME DocumentAssumption == {None, Broken} \cap Document = {} /\ \A S \in SUBSET Names : All # S

\* HostConfig.from_dict of a file that says nothing.
Default == [idle_minutes |-> 0, gpus |-> {}, shared_gpus |-> {},
            env |-> [user |-> 0, cache |-> 0], pkg_commit |-> None]

Off == [pc |-> "off", kind |-> "set", seen |-> None, patch |-> <<>>, about |-> {},
        document |-> None, boot |-> FALSE]

\* What a document says of some of its keys.
Patches == {[k \in S |-> document[k]] : S \in SUBSET Keys, document \in Document}

Command == [pc : {"off", "merge", "put", "note", "remove", "rsync", "derive", "health"},
            kind : {"set", "first", "ship", "derive"},
            seen : Document \cup {None}, patch : Patches, about : SUBSET AllLeaves,
            document : Document \cup {None}, boot : BOOLEAN]

TypeOK ==
  /\ config \in Document \cup {None, Broken}
  /\ pkg \in Builds \cup {None}
  /\ cmd \in [Clients -> Command]
  /\ cache \in [Clients -> Document \cup {None}]
  /\ begun \in 0..MaxCommands /\ wiped \in 0..MaxWipes

Init ==
  /\ config = None /\ pkg = None
  /\ cmd = [c \in Clients |-> Off]
  /\ cache = [c \in Clients |-> None]
  /\ begun = 0 /\ wiped = 0

-----------------------------------------------------------------------------
(* Documents.                                                              *)

\* merged_config: the patch's keys over what is there, `env` wholesale.
Merged(document, patch) ==
  LET base == IF document = None THEN Default ELSE document
  IN  [k \in Keys |-> IF k \in DOMAIN patch THEN patch[k] ELSE base[k]]

\* first_config: every card that is not shared, and what was asked for on top.
FirstConfig(overrides) ==
  [k \in {"gpus"} \cup DOMAIN overrides |-> IF k \in DOMAIN overrides THEN overrides[k] ELSE All]

\* What each name is: a UUID its own card, a number the card that has it.
TrueTable == [n \in Names |-> IF n \in Cards THEN n ELSE CardAt[n]]

\* A client's table may miss a card, or have the numbers of another boot.
Tables ==
  IF "tables" \in Assumed THEN {TrueTable}
  ELSE {t \in [Names -> Cards \cup {None}] : \A x \in Cards : t[x] \in {x, None}}

\* The names a document gives, each with the list that has it; a host that
\* owns every card owns those that no shared name is.
Claims(document) ==
  {<<"owned", n>> : n \in IF document.gpus = All THEN {} ELSE document.gpus}
  \cup {<<"shared", n>> : n \in document.shared_gpus}

\* gpus.resolve's `duplicates`: two names of one card, by this table.  A name that
\* is not in the table is compared with none.
NamedTwice(table, document) ==
  \E a, b \in Claims(document) : a # b /\ table[a[2]] = table[b[2]] /\ table[a[2]] # None

\* sticky_env: a key that bootstrap derived survives an --env that leaves it out.
StickyEnv(document, user) == [user |-> user, cache |-> Merged(document, <<>>).env.cache]

-----------------------------------------------------------------------------
(* Commands.                                                               *)

Touches(patch, keys) == DOMAIN patch \cap keys # {}

\* Nobody else is between its look at these keys and its write of them.
Undisturbed(c, patch) ==
  \A a \in {<<"cards", {"gpus", "shared_gpus"}>>, <<"env", {"env"}>>} :
    a[1] \in Assumed /\ Touches(patch, a[2]) =>
      \A d \in Clients \ {c} : ~Touches(cmd[d].patch, a[2])

\* From the decision to ship, or from a restored config that names a package which
\* is not there yet, to the commit.
Shipping(c) ==
  \/ cmd[c].pc \in {"remove", "rsync"}
  \/ cmd[c].kind \in {"ship", "first"} /\ cmd[c].pc \in {"merge", "put"}
  \/ cmd[c].kind = "first" /\ cmd[c].pc = "note"

Begins(c) ==
  /\ cmd[c].pc = "off" /\ begun < MaxCommands
  /\ config # Broken       \* refuse_unreadable
  /\ begun' = begun + 1
  /\ UNCHANGED <<config, pkg, wiped>>

\* What this client last knew of the host.
UpdateCache(c, document) == cache' = [cache EXCEPT ![c] = document]

\* What flags ask of the host, and the leaves of its config they are about.
Flags(document) ==
  {[patch |-> [k \in {"idle_minutes"} |-> v], about |-> {"idle_minutes"}] : v \in {0, 1}}
  \cup {[patch |-> [k \in {"gpus"} |-> g], about |-> {"gpus"}] : g \in Gpus}
  \cup {[patch |-> [k \in {"shared_gpus"} |-> s], about |-> {"shared_gpus"}] : s \in SUBSET Names}
  \cup {[patch |-> [k \in {"env"} |-> StickyEnv(document, u)], about |-> {"user"}] : u \in {0, 1}}

\* Mutant: the patch is judged on its own.
JudgedAlone(table, document, patch) == NamedTwice(table, Merged(None, patch))

\* _refuse_shared_overlap, of what the write would leave.
Refused(table, document, patch) == NamedTwice(table, Merged(document, patch))

\* `host set`, and `host add` of a host that has a config (which refuses besides,
\* unless --force, a --gpus that shares cards with the host's): nothing is
\* written where nothing changes, and the cache has what was read.
SetHost(c) ==
  /\ Begins(c)
  /\ \E f \in Flags(config), table \in Tables :
       /\ ~Refused(table, config, f.patch)
       /\ Undisturbed(c, f.patch)
       /\ IF config # None /\ Merged(config, f.patch) = config
          THEN /\ UpdateCache(c, config)
               /\ UNCHANGED cmd
          ELSE /\ cmd' = [cmd EXCEPT ![c] = [Off EXCEPT !.pc = "merge", !.patch = f.patch,
                                                        !.about = f.about, !.seen = config]]
               /\ UNCHANGED cache

\* `host add` of a host nobody has set up.
AddHost(c) ==
  /\ Begins(c) /\ config = None
  /\ \E f \in Flags(None), table \in Tables :
       LET patch == FirstConfig(f.patch)
       IN  /\ ~Refused(table, None, patch)
           /\ Undisturbed(c, patch)
           /\ cmd' = [cmd EXCEPT ![c] = [Off EXCEPT !.pc = "merge", !.patch = patch,
                                                    !.about = f.about]]
  /\ UNCHANGED cache

\* `host bootstrap`: a wiped home gets what this client last read off it, all of
\* which the patch names and none of which anybody asked for now.
BootstrapHost(c) ==
  /\ Begins(c)
  /\ LET patch == FirstConfig(IF cache[c] = None THEN <<>> ELSE cache[c])
     IN  IF config = None
         THEN /\ Undisturbed(c, patch)
              /\ cmd' = [cmd EXCEPT ![c] = [Off EXCEPT !.pc = "merge", !.kind = "first", !.boot = TRUE,
                                                       !.patch = patch]]
         ELSE cmd' = [cmd EXCEPT ![c] = [Off EXCEPT !.pc = "remove", !.seen = config,
                                                    !.boot = TRUE]]
  /\ UNCHANGED cache

\* ensure_package_current: a host that names another build than this one; one
\* that names none is refused.
SubmitShips(c) ==
  /\ Begins(c)
  /\ config # None /\ config.pkg_commit \notin {None, BuildOf[c]}
  /\ cmd' = [cmd EXCEPT ![c] = [Off EXCEPT !.pc = "remove", !.seen = config]]
  /\ UpdateCache(c, config)

-----------------------------------------------------------------------------
(* write_config.                                                           *)

\* Mutant: merged into what the command read when it began.
MergeIntoSeen(c) ==
  /\ cmd[c].pc = "merge" /\ config # Broken
  /\ "whole" \in Assumed => \A d \in Clients : cmd[d].pc # "put"
  /\ "first" \in Assumed => (cmd[c].seen = None => config = None)
  /\ cmd' = [cmd EXCEPT ![c].pc = "put", ![c].document = Merged(cmd[c].seen, cmd[c].patch)]
  /\ UNCHANGED <<config, pkg, cache, begun, wiped>>

\* The read that the merge is made of.
MergeConfig(c) ==
  /\ cmd[c].pc = "merge" /\ config # Broken
  /\ "whole" \in Assumed => \A d \in Clients : cmd[d].pc # "put"
  /\ "first" \in Assumed => (cmd[c].seen = None => config = None)
  /\ cmd' = [cmd EXCEPT ![c].pc = "put", ![c].document = Merged(config, cmd[c].patch)]
  /\ UNCHANGED <<config, pkg, cache, begun, wiped>>

\* What comes after the write, by what the write was for.
After(c) ==
  LET then(pc) == [Off EXCEPT !.pc = pc, !.seen = cmd[c].document, !.boot = TRUE]
  IN  CASE cmd[c].kind = "first" -> then("remove")
        [] cmd[c].kind = "ship" /\ cmd[c].boot -> then("derive")
        [] cmd[c].kind = "derive" -> then("health")
        [] OTHER -> Off

\* put_config's rename.
PutConfig(c) ==
  /\ cmd[c].pc = "put"
  /\ config' = cmd[c].document
  /\ cmd' = [cmd EXCEPT ![c] = [Off EXCEPT !.pc = "note", !.kind = cmd[c].kind,
                                           !.document = cmd[c].document, !.boot = cmd[c].boot]]
  /\ UNCHANGED <<pkg, cache, begun, wiped>>

\* The registry's write of what was put.
NoteConfig(c) ==
  /\ cmd[c].pc = "note"
  /\ UpdateCache(c, cmd[c].document)
  /\ cmd' = [cmd EXCEPT ![c] = After(c)]
  /\ UNCHANGED <<config, pkg, begun, wiped>>

-----------------------------------------------------------------------------
(* Shipping, and the rest of bootstrap.                                    *)

RemovePackage(c) ==
  /\ cmd[c].pc = "remove"
  /\ "ships" \in Assumed =>
       \A d \in Clients \ {c} : ~Shipping(d) \/ cmd[d].pc = "remove"
  /\ pkg' = None
  /\ cmd' = [cmd EXCEPT ![c].pc = "rsync"]
  /\ UNCHANGED <<config, cache, begun, wiped>>

\* Mutant: the commit is written only where the config, as it was read, differs.
SyncWithoutRecord(c) ==
  /\ cmd[c].pc = "rsync"
  /\ pkg' = BuildOf[c]
  /\ cmd' = [cmd EXCEPT ![c].pc = IF cmd[c].seen.pkg_commit = BuildOf[c] THEN "health" ELSE "merge",
                        ![c].kind = "ship", ![c].about = {"pkg_commit"},
                        ![c].patch = [k \in {"pkg_commit"} |-> BuildOf[c]]]
  /\ UNCHANGED <<config, cache, begun, wiped>>

SyncPackage(c) ==
  /\ cmd[c].pc = "rsync"
  /\ pkg' = BuildOf[c]
  /\ cmd' = [cmd EXCEPT ![c].pc = "merge", ![c].kind = "ship", ![c].about = {"pkg_commit"},
                        ![c].patch = [k \in {"pkg_commit"} |-> BuildOf[c]]]
  /\ UNCHANGED <<config, cache, begun, wiped>>

\* derive_env, from the session's document: the cache directory, where the host
\* names none and the filesystems ask for one.
DeriveEnv(c) ==
  /\ cmd[c].pc = "derive"
  /\ \/ /\ cmd[c].seen.env.cache = 0
        /\ "env" \in Assumed => config \in Document /\ config.env = cmd[c].seen.env
        /\ LET patch == [k \in {"env"} |-> [cmd[c].seen.env EXCEPT !.cache = 1]]
           IN  /\ Undisturbed(c, patch)
               /\ cmd' = [cmd EXCEPT ![c] = [Off EXCEPT !.pc = "merge", !.kind = "derive",
                                                        !.about = {"cache"}, !.patch = patch,
                                                        !.seen = cmd[c].seen, !.boot = TRUE]]
     \/ cmd' = [cmd EXCEPT ![c].pc = "health"]
  /\ UNCHANGED <<config, pkg, cache, begun, wiped>>

\* The checks pass, the dispatcher is started, the entry is recorded.
Health(c) ==
  /\ cmd[c].pc = "health"
  /\ UpdateCache(c, cmd[c].seen)
  /\ cmd' = [cmd EXCEPT ![c] = Off]
  /\ UNCHANGED <<config, pkg, begun, wiped>>

\* An ssh call that fails, or a Ctrl-C, wherever the command is.
Fails(c) ==
  /\ cmd[c].pc # "off"
  /\ "ships" \in Assumed => ~Shipping(c)
  /\ cmd' = [cmd EXCEPT ![c] = Off]
  /\ UNCHANGED <<config, pkg, cache, begun, wiped>>

-----------------------------------------------------------------------------
(* Hands on the host, between commands.                                    *)

Wipe ==
  /\ wiped < MaxWipes /\ \A c \in Clients : cmd[c].pc = "off"
  /\ wiped' = wiped + 1
  /\ config' = None /\ pkg' = None
  /\ UNCHANGED <<cmd, cache, begun>>

Break ==
  /\ wiped < MaxWipes /\ config \in Document
  /\ \A c \in Clients : cmd[c].pc # "put" /\ ~Shipping(c)
  /\ wiped' = wiped + 1
  /\ config' = Broken
  /\ UNCHANGED <<pkg, cmd, cache, begun>>

-----------------------------------------------------------------------------
Next ==
  \/ \E c \in Clients :
       \/ SetHost(c) \/ AddHost(c) \/ BootstrapHost(c) \/ SubmitShips(c)
       \/ MergeConfig(c) \/ PutConfig(c) \/ NoteConfig(c) \/ RemovePackage(c) \/ SyncPackage(c)
       \/ DeriveEnv(c) \/ Health(c) \/ Fails(c)
  \/ Wipe \/ Break

Spec == Init /\ [][Next]_vars

-----------------------------------------------------------------------------
Leaf(document, l) ==
  IF l \in {"user", "cache"} THEN document.env[l] ELSE document[l]

\* KeepsOthers: a write changes only what its command is about, whatever the
\* other clients wrote since that command read the file, one environment variable
\* counted at a time, and what a restored config brings back counted as nothing
\* that anybody asked for; and a file that cannot be read is never written over
\* (write_config's second read, sticky_env, derive_env).
KeepsOthers ==
  [][\A c \in Clients : PutConfig(c) =>
       /\ config # Broken
       /\ config \in Document =>
            \A l \in AllLeaves \ cmd[c].about : Leaf(config', l) = Leaf(config, l)]_vars

\* OwnedOnce: a config never names a card twice, as the host's own to hand out and as
\* somebody else's to borrow or as a number and its own UUID, whichever clients
\* named it and however each spelled it (_refuse_shared_overlap, gpus.resolve).
OwnedOnce == config \in Document => ~NamedTwice(TrueTable, config)

\* PkgIsWhatItSays: between ships, a host that names a build has that build's
\* package: what a submit compares before it decides to ship (ensure_build).
PkgIsWhatItSays ==
  (config \in Document /\ \A c \in Clients : ~Shipping(c)) =>
    config.pkg_commit \in {pkg, None}
=============================================================================
