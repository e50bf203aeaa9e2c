-------------------------- MODULE HostConfigProofs --------------------------
(***************************************************************************)
(* That clients with no lock between them keep a host's config whole: for  *)
(* any number of clients, cards, commands, wipes and failures at any call, *)
(* from what HostConfig assumes of the timing of two commands.             *)
(***************************************************************************)
EXTENDS HostConfig, TLAPS

-----------------------------------------------------------------------------
(* Documents, and what is merged into them.                                *)

\* What a key is given where no patch names it.
Base(document) == IF document = None THEN Default ELSE document

\* What each key of a document holds.
LEMMA DocumentIs ==
  /\ \A d : d \in Document => /\ d["idle_minutes"] \in {0, 1} /\ d["gpus"] \in Gpus
                              /\ d["shared_gpus"] \in SUBSET Names /\ d["env"] \in Env
                              /\ d["pkg_commit"] \in Builds \cup {None}
  /\ \A f : /\ f = [k \in Keys |-> f[k]]
            /\ f["idle_minutes"] \in {0, 1} /\ f["gpus"] \in Gpus
            /\ f["shared_gpus"] \in SUBSET Names /\ f["env"] \in Env
            /\ f["pkg_commit"] \in Builds \cup {None}
            => f \in Document
<1>1. \A d : d \in Document => /\ d["idle_minutes"] \in {0, 1} /\ d["gpus"] \in Gpus
                              /\ d["shared_gpus"] \in SUBSET Names /\ d["env"] \in Env
                              /\ d["pkg_commit"] \in Builds \cup {None}
  BY DEF Document
<1>2. ASSUME NEW f, f = [k \in Keys |-> f[k]], f["idle_minutes"] \in {0, 1}, f["gpus"] \in Gpus,
             f["shared_gpus"] \in SUBSET Names, f["env"] \in Env,
             f["pkg_commit"] \in Builds \cup {None}
      PROVE  f \in Document
  BY <1>2 DEF Document, Keys
<1> QED  BY <1>1, <1>2

LEMMA DefaultDocument == Default \in Document
BY DEF Default, Document, Env, Gpus

\* A patch says of its keys what a document could.
LEMMA PatchIs ==
  ASSUME NEW p \in Patches
  PROVE  /\ DOMAIN p \subseteq Keys
         /\ \E d \in Document : \A k \in DOMAIN p : p[k] = d[k]
BY DEF Patches

\* A merge gives each key what the patch says of it, or what was there.
LEMMA MergedIs ==
  ASSUME NEW p \in Patches, NEW d \in Document \cup {None}
  PROVE  /\ Merged(d, p) \in Document /\ Base(d) \in Document
         /\ \A k \in Keys : Merged(d, p)[k] = IF k \in DOMAIN p THEN p[k] ELSE Base(d)[k]
<1>1. Base(d) \in Document
  BY DefaultDocument DEF Base
<1>2. Merged(d, p) = [k \in Keys |-> IF k \in DOMAIN p THEN p[k] ELSE Base(d)[k]]
  BY DEF Merged, Base
<1>3. PICK e \in Document : \A k \in DOMAIN p : p[k] = e[k]
  BY PatchIs
<1>4. \A k \in Keys : Merged(d, p)[k] = Base(d)[k] \/ Merged(d, p)[k] = e[k]
  BY <1>2, <1>3
<1>5. Merged(d, p) \in Document
  BY <1>1, <1>2, <1>4, DocumentIs DEF Keys
<1> QED  BY <1>1, <1>2, <1>5

LEMMA PatchesAre ==
  ASSUME NEW p, \E S \in SUBSET Keys, d \in Document : p = [k \in S |-> d[k]]
  PROVE  p \in Patches
BY DEF Patches

\* A document is the patch of all its keys, and nothing is one of none.
LEMMA WholePatches ==
  /\ \A d : d \in Document => d \in Patches /\ DOMAIN d = Keys
  /\ <<>> \in Patches /\ DOMAIN <<>> = {}
<1>1. ASSUME NEW d \in Document PROVE d \in Patches /\ DOMAIN d = Keys
  <2>1. DOMAIN d = Keys /\ d = [k \in Keys |-> d[k]]
    BY DEF Document, Keys
  <2> QED  BY <2>1 DEF Patches
<1>2. <<>> = [k \in {} |-> Default[k]] /\ DOMAIN <<>> = {}
  OBVIOUS
<1>3. <<>> \in Patches
  <2>1. \E S \in SUBSET Keys, d \in Document : <<>> = [k \in S |-> d[k]]
    BY <1>2, DefaultDocument
  <2> QED  BY <2>1, PatchesAre
<1> QED  BY <1>1, <1>2, <1>3

\* A patch of one key.
LEMMA OneKeyPatches ==
  /\ \A v \in {0, 1} : [k \in {"idle_minutes"} |-> v] \in Patches
  /\ \A v \in Gpus : [k \in {"gpus"} |-> v] \in Patches
  /\ \A v \in SUBSET Names : [k \in {"shared_gpus"} |-> v] \in Patches
  /\ \A v \in Env : [k \in {"env"} |-> v] \in Patches
  /\ \A v \in Builds : [k \in {"pkg_commit"} |-> v] \in Patches
<1>1. ASSUME NEW d \in Document, NEW j \in Keys, NEW v, v = d[j]
      PROVE  [k \in {j} |-> v] \in Patches
  <2>1. [k \in {j} |-> v] = [k \in {j} |-> d[k]]
    BY <1>1
  <2>2. {j} \in SUBSET Keys
    OBVIOUS
  <2>3. \E S \in SUBSET Keys, e \in Document : [k \in {j} |-> v] = [k \in S |-> e[k]]
    BY <2>1, <2>2
  <2> QED  BY <2>3, PatchesAre
<1>2. ASSUME NEW v \in {0, 1} PROVE [k \in {"idle_minutes"} |-> v] \in Patches
  <2>1. [Default EXCEPT !.idle_minutes = v] \in Document
    BY DefaultDocument DEF Document
  <2>2. v = [Default EXCEPT !.idle_minutes = v]["idle_minutes"] /\ "idle_minutes" \in Keys
    BY DEF Default, Keys
  <2> QED  BY <1>1, <2>1, <2>2
<1>3. ASSUME NEW v \in Gpus PROVE [k \in {"gpus"} |-> v] \in Patches
  <2>1. [Default EXCEPT !.gpus = v] \in Document
    BY DefaultDocument DEF Document
  <2>2. v = [Default EXCEPT !.gpus = v]["gpus"] /\ "gpus" \in Keys
    BY DEF Default, Keys
  <2> QED  BY <1>1, <2>1, <2>2
<1>4. ASSUME NEW v \in SUBSET Names PROVE [k \in {"shared_gpus"} |-> v] \in Patches
  <2>1. [Default EXCEPT !.shared_gpus = v] \in Document
    BY DefaultDocument DEF Document
  <2>2. v = [Default EXCEPT !.shared_gpus = v]["shared_gpus"] /\ "shared_gpus" \in Keys
    BY DEF Default, Keys
  <2> QED  BY <1>1, <2>1, <2>2
<1>5. ASSUME NEW v \in Env PROVE [k \in {"env"} |-> v] \in Patches
  <2>1. [Default EXCEPT !.env = v] \in Document
    BY DefaultDocument DEF Document
  <2>2. v = [Default EXCEPT !.env = v]["env"] /\ "env" \in Keys
    BY DEF Default, Keys
  <2> QED  BY <1>1, <2>1, <2>2
<1>6. ASSUME NEW v \in Builds PROVE [k \in {"pkg_commit"} |-> v] \in Patches
  <2>1. [Default EXCEPT !.pkg_commit = v] \in Document
    BY DefaultDocument DEF Document
  <2>2. v = [Default EXCEPT !.pkg_commit = v]["pkg_commit"] /\ "pkg_commit" \in Keys
    BY DEF Default, Keys
  <2> QED  BY <1>1, <2>1, <2>2
<1> QED  BY <1>2, <1>3, <1>4, <1>5, <1>6

-----------------------------------------------------------------------------
(* What a client's step does: it begins a write, makes its merge, puts it, *)
(* or goes on without one.                                                 *)

Writing(c) == cmd[c].pc \in {"merge", "put"}

CardKeys == {"gpus", "shared_gpus"}

LeafKey(l) == IF l \in {"user", "cache"} THEN "env" ELSE l

\* Of the leaves a command is not about its patch names at most one variable of
\* the environment, with the value that the document has.
AboutFits(document, p, about) ==
  \A l \in AllLeaves \ about :
    LeafKey(l) \in DOMAIN p =>
      l \in {"user", "cache"} /\ p["env"][l] = Base(document)["env"][l]

\* The patch of a restored config: what the client last knew, or every card.
Restored(c, p) ==
  p = [k \in {"gpus"} |-> All] \/ (cache[c] # None /\ p = cache[c])

\* What a write of this patch would leave names a card twice.
Twice(document, p) == NamedTwice(TrueTable, Merged(document, p))

BeginsWrite(c) ==
  /\ UNCHANGED <<config, cache>> /\ ~Writing(c)
  /\ \E r \in Command :
       /\ cmd' = [cmd EXCEPT ![c] = r]
       /\ r.pc = "merge"
       /\ r.seen \in {None, config, cmd[c].seen} /\ r.document \in {None, cmd[c].document}
       /\ Undisturbed(c, r.patch)
       /\ config # Broken /\ r.seen # None /\ "env" \in Assumed =>
            AboutFits(config, r.patch, r.about)
       /\ \/ /\ r.kind = "set" /\ cmd[c].pc = "off" /\ config # Broken /\ pkg' = pkg
             /\ "tables" \in Assumed => ~Twice(config, r.patch)
             /\ "pkg_commit" \notin DOMAIN r.patch
          \/ /\ r.kind = "first" /\ cmd[c].pc = "off" /\ config = None /\ pkg' = pkg
             /\ Restored(c, r.patch)
          \/ /\ r.kind = "derive" /\ cmd[c].pc = "derive" /\ pkg' = pkg
             /\ DOMAIN r.patch = {"env"}
          \/ /\ r.kind = "ship" /\ cmd[c].pc = "rsync" /\ pkg' = BuildOf[c]
             /\ DOMAIN r.patch = {"pkg_commit"} /\ r.patch["pkg_commit"] = BuildOf[c]

GoesOn(c) ==
  /\ config' = config /\ (Writing(c) => cmd'[c].pc = "off")
  /\ \/ cache' = cache
     \/ config \in Document /\ cache' = [cache EXCEPT ![c] = config]
     \/ cache' = [cache EXCEPT ![c] = cmd[c].seen]
  /\ \E r \in Command :
       /\ cmd' = [cmd EXCEPT ![c] = r]
       /\ r.seen \in {None, config, cmd[c].seen} /\ r.document \in {None, cmd[c].document}
       /\ r.patch \in {<<>>, cmd[c].patch}
       /\ \/ /\ r.pc = "off" /\ pkg' = pkg
             /\ "ships" \in Assumed => ~Shipping(c)
          \/ r.pc = "remove" /\ cmd[c].pc = "off" /\ config \in Document /\ pkg' = pkg
          \/ /\ r.pc = "rsync" /\ cmd[c].pc = "remove" /\ pkg' = None
             /\ "ships" \in Assumed => \A d \in Clients \ {c} : ~Shipping(d) \/ cmd[d].pc = "remove"
          \/ /\ r.pc = "health" /\ cmd[c].pc = "derive" /\ pkg' = pkg
             /\ r.seen = cmd[c].seen

\* Whoever derives a variable, or is done, has a document, and so has whoever puts or
\* notes one.
HasRead ==
  \A c \in Clients : /\ cmd[c].pc \in {"derive", "health"} => cmd[c].seen \in Document
                     /\ cmd[c].pc \in {"put", "note"} => cmd[c].document \in Document

\* A file that is there and can be read holds a document.
LEMMA Readable ==
  ASSUME TypeOK
  PROVE  /\ config # Broken => config \in Document \cup {None}
         /\ config # Broken /\ config # None => config \in Document
BY DEF TypeOK

LEMMA OffCommand == Off \in Command
BY WholePatches DEF Off, Command

\* An environment keeps what was derived.
LEMMA StickyEnvIs ==
  ASSUME NEW d \in Document \cup {None}, NEW u \in {0, 1}
  PROVE  StickyEnv(d, u) \in Env /\ StickyEnv(d, u)["cache"] = Base(d)["env"]["cache"]
<1>1. Merged(d, <<>>)["env"] = Base(d)["env"] /\ Base(d) \in Document
  BY MergedIs, WholePatches DEF Keys
<1>2. Base(d)["env"] \in Env
  BY <1>1, DocumentIs
<1> QED  BY <1>1, <1>2 DEF StickyEnv, Env

\* What a person may ask for is a patch of one key, and about one leaf of it.
LEMMA FlagsAre ==
  ASSUME NEW d \in Document \cup {None}, NEW f \in Flags(d)
  PROVE  /\ f.patch \in Patches /\ f.about \in SUBSET AllLeaves
         /\ "pkg_commit" \notin DOMAIN f.patch
         /\ AboutFits(d, f.patch, f.about)
<1>1. CASE \E v \in {0, 1} : f = [patch |-> [k \in {"idle_minutes"} |-> v], about |-> {"idle_minutes"}]
  BY <1>1, OneKeyPatches DEF AllLeaves, AboutFits, LeafKey
<1>2. CASE \E v \in Gpus : f = [patch |-> [k \in {"gpus"} |-> v], about |-> {"gpus"}]
  <2>1. PICK v \in Gpus : f = [patch |-> [k \in {"gpus"} |-> v], about |-> {"gpus"}]
    BY <1>2
  <2>2. DOMAIN f.patch = {"gpus"} /\ f.about = {"gpus"} /\ f.patch \in Patches
    BY <2>1, OneKeyPatches
  <2> QED  BY <2>2 DEF AllLeaves, AboutFits, LeafKey
<1>3. CASE \E v \in SUBSET Names : f = [patch |-> [k \in {"shared_gpus"} |-> v], about |-> {"shared_gpus"}]
  <2>1. PICK v \in SUBSET Names : f = [patch |-> [k \in {"shared_gpus"} |-> v], about |-> {"shared_gpus"}]
    BY <1>3
  <2>2. DOMAIN f.patch = {"shared_gpus"} /\ f.about = {"shared_gpus"} /\ f.patch \in Patches
    BY <2>1, OneKeyPatches
  <2> QED  BY <2>2 DEF AllLeaves, AboutFits, LeafKey
<1>4. CASE \E u \in {0, 1} : f = [patch |-> [k \in {"env"} |-> StickyEnv(d, u)], about |-> {"user"}]
  <2>1. PICK u \in {0, 1} : f = [patch |-> [k \in {"env"} |-> StickyEnv(d, u)], about |-> {"user"}]
    BY <1>4
  <2>2. f.patch["env"] = StickyEnv(d, u) /\ DOMAIN f.patch = {"env"} /\ f.about = {"user"}
    BY <2>1
  <2>3. f.patch \in Patches
    BY <2>1, StickyEnvIs, OneKeyPatches
  <2>4. AboutFits(d, f.patch, f.about)
    BY <2>2, StickyEnvIs DEF AllLeaves, AboutFits, LeafKey
  <2> QED  BY <2>2, <2>3, <2>4 DEF AllLeaves
<1> QED  BY <1>1, <1>2, <1>3, <1>4 DEF Flags

\* The names that a first config gives are its overrides' and `gpus`.
LEMMA FirstConfigIs ==
  ASSUME NEW p \in Patches
  PROVE  /\ FirstConfig(p) \in Patches /\ DOMAIN FirstConfig(p) = {"gpus"} \cup DOMAIN p
         /\ p = <<>> => FirstConfig(p) = [k \in {"gpus"} |-> All]
         /\ p \in Document => FirstConfig(p) = p
<1>1. FirstConfig(p) = [k \in {"gpus"} \cup DOMAIN p |-> IF k \in DOMAIN p THEN p[k] ELSE All]
  BY DEF FirstConfig
<1>2. PICK d \in Document : \A k \in DOMAIN p : p[k] = d[k]
  BY PatchIs
<1>3. DOMAIN p \subseteq Keys
  BY PatchIs
<1>4. FirstConfig(p) \in Patches
  <2>1. CASE "gpus" \in DOMAIN p
    <3>1. FirstConfig(p) = [k \in {"gpus"} \cup DOMAIN p |-> d[k]]
      BY <1>1, <1>2, <2>1
    <3> QED  BY <1>3, <3>1 DEF Patches, Keys
  <2>2. CASE "gpus" \notin DOMAIN p
    <3> DEFINE e == [d EXCEPT !.gpus = All]
    <3>1. e \in Document /\ e["gpus"] = All /\ \A k \in Keys \ {"gpus"} : e[k] = d[k]
      BY DEF Document, Gpus, Keys
    <3> HIDE DEF e
    <3>2. FirstConfig(p) = [k \in {"gpus"} \cup DOMAIN p |-> e[k]]
      BY <1>1, <1>2, <1>3, <2>2, <3>1
    <3> QED  BY <1>3, <3>1, <3>2 DEF Patches, Keys
  <2> QED  BY <2>1, <2>2
<1>5. p = <<>> => FirstConfig(p) = [k \in {"gpus"} |-> All]
  BY <1>1, WholePatches
<1>6. p \in Document => FirstConfig(p) = p
  <2>1. p \in Document => p = [k \in Keys |-> p[k]] /\ DOMAIN p = Keys
    BY WholePatches DEF Document, Keys
  <2> QED  BY <1>1, <2>1 DEF Keys
<1> QED  BY <1>1, <1>4, <1>5, <1>6

\* Each command in these terms.
LEMMA SetHostIs ==
  ASSUME TypeOK, NEW c \in Clients, SetHost(c) PROVE BeginsWrite(c) \/ GoesOn(c)
<1>1. /\ cmd[c].pc = "off" /\ config # Broken /\ UNCHANGED <<config, pkg>>
      /\ config \in Document \cup {None}
  BY DEF SetHost, Begins, TypeOK
<1>2. PICK f \in Flags(config) :
        /\ "tables" \in Assumed => ~Twice(config, f.patch)
        /\ Undisturbed(c, f.patch)
        /\ IF config # None /\ Merged(config, f.patch) = config
           THEN UpdateCache(c, config) /\ UNCHANGED cmd
           ELSE /\ cmd' = [cmd EXCEPT ![c] = [Off EXCEPT !.pc = "merge", !.patch = f.patch,
                                                         !.about = f.about, !.seen = config]]
                /\ UNCHANGED cache
  BY DEF SetHost, Refused, Tables, Twice
<1>3. /\ f.patch \in Patches /\ f.about \in SUBSET AllLeaves
      /\ "pkg_commit" \notin DOMAIN f.patch /\ AboutFits(config, f.patch, f.about)
  BY <1>1, FlagsAre
<1>4. CASE config # None /\ Merged(config, f.patch) = config
  <2>1. cmd' = [cmd EXCEPT ![c] = cmd[c]] /\ cmd[c] \in Command
    BY <1>2, <1>4 DEF TypeOK
  <2>2. config \in Document /\ cache' = [cache EXCEPT ![c] = config]
    BY <1>1, <1>2, <1>4 DEF UpdateCache
  <2>3. "ships" \in Assumed => ~Shipping(c)
    BY <1>1 DEF Shipping
  <2>4. \E r \in Command :
          /\ cmd' = [cmd EXCEPT ![c] = r] /\ r.seen \in {None, config, cmd[c].seen}
          /\ r.document \in {None, cmd[c].document} /\ r.patch \in {<<>>, cmd[c].patch}
          /\ r.pc = "off" /\ pkg' = pkg
    BY <1>1, <2>1
  <2> QED  BY <1>1, <2>2, <2>3, <2>4 DEF GoesOn, Writing
<1>5. CASE ~(config # None /\ Merged(config, f.patch) = config)
  <2> DEFINE r == [Off EXCEPT !.pc = "merge", !.patch = f.patch, !.about = f.about, !.seen = config]
  <2>1. /\ r \in Command /\ r.pc = "merge" /\ r.seen = config /\ r.document = None
        /\ r.patch = f.patch /\ r.about = f.about /\ r.kind = "set"
    BY <1>1, <1>3, OffCommand DEF Off, Command
  <2>2. cmd' = [cmd EXCEPT ![c] = r] /\ UNCHANGED cache
    BY <1>2, <1>5
  <2> HIDE DEF r
  <2> QED  BY <1>1, <1>2, <1>3, <2>1, <2>2 DEF BeginsWrite, Writing
<1> QED  BY <1>4, <1>5

LEMMA AddHostIs ==
  ASSUME TypeOK, NEW c \in Clients, AddHost(c) PROVE BeginsWrite(c)
<1>1. cmd[c].pc = "off" /\ config = None /\ UNCHANGED <<config, pkg, cache>> /\ config # Broken
  BY DEF AddHost, Begins
<1>2. PICK f \in Flags(None) :
        /\ "tables" \in Assumed => ~Twice(None, FirstConfig(f.patch))
        /\ Undisturbed(c, FirstConfig(f.patch))
        /\ cmd' = [cmd EXCEPT ![c] = [Off EXCEPT !.pc = "merge", !.patch = FirstConfig(f.patch),
                                                 !.about = f.about]]
  BY DEF AddHost, Refused, Tables, Twice
<1> DEFINE p == FirstConfig(f.patch)
           r == [Off EXCEPT !.pc = "merge", !.patch = p, !.about = f.about]
<1>3. p \in Patches /\ "pkg_commit" \notin DOMAIN p /\ f.about \in SUBSET AllLeaves
  BY FlagsAre, FirstConfigIs
<1>4. /\ r \in Command /\ r.pc = "merge" /\ r.seen = None /\ r.document = None
      /\ r.patch = p /\ r.kind = "set"
  BY <1>3, OffCommand DEF Off, Command
<1>5. /\ cmd' = [cmd EXCEPT ![c] = r] /\ Undisturbed(c, p)
      /\ "tables" \in Assumed => ~Twice(None, p)
  BY <1>2
<1> HIDE DEF p, r
<1> QED  BY <1>1, <1>3, <1>4, <1>5 DEF BeginsWrite, Writing

LEMMA BootstrapHostIs ==
  ASSUME TypeOK, NEW c \in Clients, BootstrapHost(c) PROVE BeginsWrite(c) \/ GoesOn(c)
<1>1. cmd[c].pc = "off" /\ UNCHANGED <<config, pkg, cache>> /\ config # Broken
  BY DEF BootstrapHost, Begins
<1> DEFINE p == FirstConfig(IF cache[c] = None THEN <<>> ELSE cache[c])
<1>2. CASE config = None
  <2> DEFINE r == [Off EXCEPT !.pc = "merge", !.kind = "first", !.boot = TRUE,
                              !.patch = p]
  <2>1. p \in Patches /\ Restored(c, p)
    <3>1. cache[c] # None => cache[c] \in Document
      BY DEF TypeOK
    <3> QED  BY <3>1, FirstConfigIs, WholePatches DEF Restored
  <2>2. cmd' = [cmd EXCEPT ![c] = r] /\ Undisturbed(c, p)
    BY <1>2 DEF BootstrapHost
  <2> HIDE DEF p
  <2>3. /\ r \in Command /\ r.pc = "merge" /\ r.seen = None /\ r.document = None
        /\ r.patch = p /\ r.kind = "first"
    BY <2>1, OffCommand DEF Off, Command
  <2> HIDE DEF r
  <2> QED  BY <1>1, <1>2, <2>1, <2>2, <2>3 DEF BeginsWrite, Writing
<1>3. CASE config # None
  <2> DEFINE r == [Off EXCEPT !.pc = "remove", !.seen = config, !.boot = TRUE]
  <2>1. cmd' = [cmd EXCEPT ![c] = r]
    BY <1>3 DEF BootstrapHost
  <2>2. config \in Document
    BY <1>1, <1>3, Readable
  <2>3. /\ r \in Command /\ r.pc = "remove" /\ r.seen = config /\ r.document = None
        /\ r.patch = <<>>
    BY <2>2, OffCommand DEF Off, Command
  <2> HIDE DEF r
  <2> QED  BY <1>1, <2>1, <2>2, <2>3 DEF GoesOn, Writing
<1> QED  BY <1>2, <1>3

LEMMA SubmitShipsIs ==
  ASSUME TypeOK, NEW c \in Clients, SubmitShips(c) PROVE GoesOn(c)
<1> DEFINE r == [Off EXCEPT !.pc = "remove", !.seen = config]
<1>1. /\ cmd[c].pc = "off" /\ UNCHANGED <<config, pkg>> /\ config \in Document
      /\ cache' = [cache EXCEPT ![c] = config] /\ cmd' = [cmd EXCEPT ![c] = r]
  BY Readable DEF SubmitShips, Begins, UpdateCache
<1>2. /\ r \in Command /\ r.pc = "remove" /\ r.seen = config /\ r.document = None
      /\ r.patch = <<>>
  BY <1>1, OffCommand DEF Off, Command
<1> HIDE DEF r
<1> QED  BY <1>1, <1>2 DEF GoesOn, Writing

LEMMA RemovePackageIs ==
  ASSUME TypeOK, NEW c \in Clients, RemovePackage(c) PROVE GoesOn(c)
<1> DEFINE r == [cmd[c] EXCEPT !.pc = "rsync"]
<1>1. /\ r \in Command /\ r.pc = "rsync" /\ r.seen = cmd[c].seen
      /\ r.document = cmd[c].document /\ r.patch = cmd[c].patch
  BY DEF TypeOK, Command
<1>2. cmd' = [cmd EXCEPT ![c] = r]
  BY DEF RemovePackage
<1> HIDE DEF r
<1> QED  BY <1>1, <1>2 DEF RemovePackage, GoesOn, Writing

LEMMA SyncPackageIs ==
  ASSUME TypeOK, NEW c \in Clients, SyncPackage(c) PROVE BeginsWrite(c)
<1> DEFINE p == [k \in {"pkg_commit"} |-> BuildOf[c]]
           r == [cmd[c] EXCEPT !.pc = "merge", !.kind = "ship", !.about = {"pkg_commit"}, !.patch = p]
<1>1. p \in Patches /\ DOMAIN p = {"pkg_commit"} /\ p["pkg_commit"] = BuildOf[c]
  BY OneKeyPatches DEF Builds
<1>2. cmd' = [cmd EXCEPT ![c] = r]
  BY DEF SyncPackage
<1> HIDE DEF p
<1>3. /\ r \in Command /\ r.pc = "merge" /\ r.seen = cmd[c].seen /\ r.kind = "ship"
      /\ r.document = cmd[c].document /\ r.patch = p /\ r.about = {"pkg_commit"}
  <2>1. cmd[c] \in Command
    BY DEF TypeOK
  <2>2. {"pkg_commit"} \in SUBSET AllLeaves
    BY DEF AllLeaves
  <2> QED  BY <1>1, <2>1, <2>2 DEF Command
<1> HIDE DEF r
<1>4. Undisturbed(c, p)
  BY <1>1 DEF Undisturbed, Touches
<1>5. AboutFits(config, p, {"pkg_commit"})
  BY <1>1 DEF AboutFits, AllLeaves, LeafKey
<1> QED  BY <1>1, <1>2, <1>3, <1>4, <1>5 DEF SyncPackage, BeginsWrite, Writing

LEMMA HealthIs ==
  ASSUME TypeOK, NEW c \in Clients, Health(c) PROVE GoesOn(c)
<1>1. Off \in Command /\ Off.pc = "off" /\ Off.seen = None /\ Off.document = None /\ Off.patch = <<>>
  BY OffCommand DEF Off
<1> QED  BY <1>1 DEF Health, GoesOn, Writing, UpdateCache, Shipping

LEMMA FailsIs ==
  ASSUME TypeOK, NEW c \in Clients, Fails(c) PROVE GoesOn(c)
<1>1. Off \in Command /\ Off.pc = "off" /\ Off.seen = None /\ Off.document = None /\ Off.patch = <<>>
  BY OffCommand DEF Off
<1>2. cmd'[c].pc = "off"
  BY <1>1 DEF Fails, TypeOK
<1> QED  BY <1>1, <1>2 DEF Fails, GoesOn

LEMMA DeriveEnvIs ==
  ASSUME TypeOK, HasRead, NEW c \in Clients, DeriveEnv(c)
  PROVE  BeginsWrite(c) \/ GoesOn(c)
<1>1. /\ cmd[c].pc = "derive" /\ UNCHANGED <<config, pkg, cache>>
      /\ cmd[c].seen \in Document /\ cmd[c] \in Command
  BY DEF DeriveEnv, HasRead, TypeOK
<1>2. CASE cmd' = [cmd EXCEPT ![c].pc = "health"]
  <2> DEFINE r == [cmd[c] EXCEPT !.pc = "health"]
  <2>1. /\ r \in Command /\ r.pc = "health" /\ r.seen = cmd[c].seen
        /\ r.document = cmd[c].document /\ r.patch = cmd[c].patch
    BY <1>1 DEF Command
  <2>2. cmd' = [cmd EXCEPT ![c] = r]
    BY <1>2
  <2> HIDE DEF r
  <2> QED  BY <1>1, <2>1, <2>2 DEF GoesOn, Writing
<1>3. CASE cmd' # [cmd EXCEPT ![c].pc = "health"]
  <2> DEFINE e == [cmd[c].seen.env EXCEPT !.cache = 1]
             p == [k \in {"env"} |-> e]
             r == [Off EXCEPT !.pc = "merge", !.kind = "derive", !.about = {"cache"}, !.patch = p,
                              !.seen = cmd[c].seen, !.boot = TRUE]
  <2>1. /\ "env" \in Assumed => config \in Document /\ config.env = cmd[c].seen.env
        /\ Undisturbed(c, p) /\ cmd' = [cmd EXCEPT ![c] = r]
    BY <1>3 DEF DeriveEnv
  <2>2. e \in Env /\ e["user"] = cmd[c].seen.env["user"]
    <3>1. cmd[c].seen.env \in Env
      BY <1>1, DocumentIs
    <3> QED  BY <3>1 DEF Env
  <2> HIDE DEF e
  <2>3. p \in Patches /\ DOMAIN p = {"env"} /\ p["env"] = e
    BY <2>2, OneKeyPatches
  <2> HIDE DEF p
  <2>4. /\ r \in Command /\ r.pc = "merge" /\ r.seen = cmd[c].seen /\ r.kind = "derive"
        /\ r.document = None /\ r.patch = p /\ r.about = {"cache"}
    BY <1>1, <2>3, OffCommand DEF Off, Command, AllLeaves
  <2> HIDE DEF r
  <2>5. "env" \in Assumed => AboutFits(config, p, {"cache"})
    <3>1. "env" \in Assumed => Base(config) = config
      BY <2>1, DocumentAssumption DEF Base
    <3> QED  BY <2>1, <2>2, <2>3, <3>1 DEF AboutFits, AllLeaves, LeafKey
  <2> QED  BY <1>1, <2>1, <2>3, <2>4, <2>5 DEF BeginsWrite, Writing
<1> QED  BY <1>2, <1>3

\* The read of a write, and its rename.
MergesIt(c) ==
  /\ UNCHANGED <<config, pkg, cache>> /\ config # Broken
  /\ "whole" \in Assumed => \A d \in Clients : cmd[d].pc # "put"
  /\ "first" \in Assumed => (cmd[c].seen = None => config = None)
  /\ \E r \in Command :
       /\ cmd' = [cmd EXCEPT ![c] = r]
       /\ cmd[c].pc = "merge" /\ r.pc = "put" /\ r.document = Merged(config, r.patch)
       /\ r.seen = cmd[c].seen /\ r.patch = cmd[c].patch /\ r.kind = cmd[c].kind
       /\ r.about = cmd[c].about

PutsIt(c) ==
  /\ config' = cmd[c].document /\ cache' = cache /\ pkg' = pkg
  /\ \E r \in Command :
       /\ cmd' = [cmd EXCEPT ![c] = r]
       /\ cmd[c].pc = "put" /\ r.pc = "note" /\ r.kind = cmd[c].kind
       /\ r.document = cmd[c].document /\ r.seen = None /\ r.patch = <<>>

\* The client's note of it, and what it does next.
NotesIt(c) ==
  /\ config' = config /\ cache' = [cache EXCEPT ![c] = cmd[c].document] /\ pkg' = pkg
  /\ \E r \in Command :
       /\ cmd' = [cmd EXCEPT ![c] = r]
       /\ cmd[c].pc = "note" /\ r.pc \in {"off", "remove", "derive", "health"}
       /\ r.seen \in {None, cmd[c].document} /\ r.document = None /\ r.patch = <<>>
       /\ r.pc = "remove" <=> cmd[c].kind = "first"
       /\ r.pc \in {"derive", "health"} => r.seen = cmd[c].document

LEMMA MergeConfigIs ==
  ASSUME TypeOK, NEW c \in Clients, MergeConfig(c) PROVE MergesIt(c)
<1> DEFINE r == [cmd[c] EXCEPT !.pc = "put", !.document = Merged(config, cmd[c].patch)]
<1>1. cmd[c] \in Command /\ config # Broken /\ cmd[c].patch \in Patches
  BY DEF TypeOK, Command, MergeConfig
<1>2. Merged(config, cmd[c].patch) \in Document
  BY <1>1, Readable, MergedIs
<1>3. /\ r \in Command /\ r.pc = "put" /\ r.document = Merged(config, cmd[c].patch)
      /\ r.seen = cmd[c].seen /\ r.patch = cmd[c].patch /\ r.kind = cmd[c].kind
      /\ r.about = cmd[c].about
  BY <1>1, <1>2 DEF Command
<1>4. cmd' = [cmd EXCEPT ![c] = r]
  BY DEF MergeConfig
<1> HIDE DEF r
<1> QED  BY <1>3, <1>4 DEF MergeConfig, MergesIt

LEMMA PutConfigIs ==
  ASSUME TypeOK, NEW c \in Clients, PutConfig(c) PROVE PutsIt(c)
<1> DEFINE r == [Off EXCEPT !.pc = "note", !.kind = cmd[c].kind,
                            !.document = cmd[c].document, !.boot = cmd[c].boot]
<1>1. cmd[c] \in Command
  BY DEF TypeOK
<1>2. /\ r \in Command /\ r.pc = "note" /\ r.kind = cmd[c].kind
      /\ r.document = cmd[c].document /\ r.seen = None /\ r.patch = <<>>
  BY <1>1, OffCommand DEF Off, Command
<1>3. cmd' = [cmd EXCEPT ![c] = r]
  BY DEF PutConfig
<1> HIDE DEF r
<1> QED  BY <1>2, <1>3 DEF PutConfig, PutsIt

LEMMA NoteConfigIs ==
  ASSUME TypeOK, NEW c \in Clients, NoteConfig(c) PROVE NotesIt(c)
<1> DEFINE then(pc) == [Off EXCEPT !.pc = pc, !.seen = cmd[c].document, !.boot = TRUE]
<1>1. cmd[c] \in Command /\ cmd[c].document \in Document \cup {None}
  BY DEF TypeOK, Command
<1>2. \A pc \in {"remove", "derive", "health"} :
        /\ then(pc) \in Command /\ then(pc).pc = pc /\ then(pc).seen = cmd[c].document
        /\ then(pc).document = None /\ then(pc).patch = <<>>
  BY <1>1, OffCommand DEF Off, Command
<1>3. Off \in Command /\ Off.pc = "off" /\ Off.seen = None /\ Off.document = None /\ Off.patch = <<>>
  BY OffCommand DEF Off
<1>4. cmd[c].kind \in {"set", "first", "ship", "derive"}
  BY <1>1 DEF Command
<1>5. \/ cmd[c].kind = "first" /\ After(c) = then("remove")
      \/ cmd[c].kind = "ship" /\ After(c) = then("derive")
      \/ cmd[c].kind = "derive" /\ After(c) = then("health")
      \/ cmd[c].kind # "first" /\ After(c) = Off
  BY <1>4 DEF After
<1> HIDE DEF then
<1>6. cmd' = [cmd EXCEPT ![c] = After(c)]
  BY DEF NoteConfig
<1>7. /\ After(c) \in Command /\ After(c).pc \in {"off", "remove", "derive", "health"}
      /\ After(c).seen \in {None, cmd[c].document}
      /\ After(c).document = None /\ After(c).patch = <<>>
      /\ After(c).pc = "remove" <=> cmd[c].kind = "first"
      /\ After(c).pc \in {"derive", "health"} => After(c).seen = cmd[c].document
  BY <1>2, <1>3, <1>5
<1> QED  BY <1>6, <1>7 DEF NoteConfig, NotesIt, UpdateCache

\* Every step in these terms.
LEMMA StepIs ==
  ASSUME TypeOK, HasRead, [Next]_vars
  PROVE  \/ \E c \in Clients : BeginsWrite(c) \/ GoesOn(c) \/ MergesIt(c) \/ PutsIt(c) \/ NotesIt(c)
         \/ Wipe \/ Break \/ UNCHANGED vars
BY SetHostIs, AddHostIs, BootstrapHostIs, SubmitShipsIs, RemovePackageIs, SyncPackageIs, HealthIs,
   FailsIs, DeriveEnvIs, MergeConfigIs, PutConfigIs, NoteConfigIs DEF Next

-----------------------------------------------------------------------------
(* Type correctness.                                                       *)

LEMMA InitType == Init => TypeOK /\ HasRead
BY HostConfigAssumption, OffCommand DEF Init, TypeOK, HasRead, Off

LEMMA CountersType == TypeOK /\ [Next]_vars => (begun \in 0..MaxCommands /\ wiped \in 0..MaxWipes)'
<1> SUFFICES ASSUME TypeOK, [Next]_vars PROVE (begun \in 0..MaxCommands /\ wiped \in 0..MaxWipes)'
  OBVIOUS
<1>1. /\ begun \in 0..MaxCommands /\ wiped \in 0..MaxWipes
      /\ MaxCommands \in Nat /\ MaxWipes \in Nat
  BY HostConfigAssumption DEF TypeOK
<1>2. ASSUME NEW c \in Clients, Begins(c) PROVE (begun \in 0..MaxCommands /\ wiped \in 0..MaxWipes)'
  BY <1>1, <1>2 DEF Begins
<1>3. CASE Wipe \/ Break
  BY <1>1, <1>3 DEF Wipe, Break
<1>4. CASE UNCHANGED <<begun, wiped>>
  BY <1>1, <1>4
<1> QED  BY <1>2, <1>3, <1>4 DEF Next, SetHost, AddHost, BootstrapHost, SubmitShips, MergeConfig,
           PutConfig, NoteConfig, RemovePackage, SyncPackage, DeriveEnv, Health, Fails, vars

LEMMA NextType == TypeOK /\ HasRead /\ [Next]_vars => (TypeOK /\ HasRead)'
<1> SUFFICES ASSUME TypeOK, HasRead, [Next]_vars PROVE (TypeOK /\ HasRead)'
  OBVIOUS
<1> DEFINE Typed == /\ config' \in Document \cup {None, Broken}
                    /\ pkg' \in Builds \cup {None}
                    /\ cmd' \in [Clients -> Command]
                    /\ cache' \in [Clients -> Document \cup {None}]
<1>0. /\ config \in Document \cup {None, Broken} /\ pkg \in Builds \cup {None}
      /\ cmd \in [Clients -> Command] /\ cache \in [Clients -> Document \cup {None}]
  BY DEF TypeOK
<1>1. ASSUME NEW c \in Clients, BeginsWrite(c) PROVE Typed /\ HasRead'
  <2>1. PICK r \in Command : cmd' = [cmd EXCEPT ![c] = r] /\ r.pc = "merge"
    BY <1>1 DEF BeginsWrite
  <2>2. HasRead'
    BY <1>0, <2>1 DEF HasRead
  <2>3. BuildOf[c] \in Builds
    BY DEF Builds
  <2> QED  BY <1>0, <1>1, <2>1, <2>2, <2>3 DEF BeginsWrite
<1>2. ASSUME NEW c \in Clients, GoesOn(c) PROVE Typed /\ HasRead'
  <2>1. PICK r \in Command : /\ cmd' = [cmd EXCEPT ![c] = r] /\ r.pc \notin {"put", "note", "derive"}
                             /\ r.pc = "health" => cmd[c].pc = "derive" /\ r.seen = cmd[c].seen
    BY <1>2 DEF GoesOn
  <2>2. HasRead'
    BY <1>0, <2>1 DEF HasRead
  <2>3. cmd[c].seen \in Document \cup {None}
    BY <1>0 DEF Command
  <2> QED  BY <1>0, <1>2, <2>1, <2>2, <2>3 DEF GoesOn
<1>3. ASSUME NEW c \in Clients, MergesIt(c) PROVE Typed /\ HasRead'
  <2>1. PICK r \in Command : /\ cmd' = [cmd EXCEPT ![c] = r] /\ r.pc = "put"
                             /\ r.document = Merged(config, r.patch)
    BY <1>3 DEF MergesIt
  <2>2. r.patch \in Patches
    BY DEF Command
  <2>3. r.document \in Document
    BY <1>3, <2>1, <2>2, Readable, MergedIs DEF MergesIt
  <2>4. HasRead'
    BY <1>0, <2>1, <2>3 DEF HasRead
  <2> QED  BY <1>0, <1>3, <2>1, <2>4 DEF MergesIt
<1>4. ASSUME NEW c \in Clients, PutsIt(c) PROVE Typed /\ HasRead'
  <2>1. PICK r \in Command : /\ cmd' = [cmd EXCEPT ![c] = r] /\ r.pc = "note"
                             /\ r.document = cmd[c].document /\ cmd[c].pc = "put"
    BY <1>4 DEF PutsIt
  <2>2. cmd[c].document \in Document
    BY <2>1 DEF HasRead
  <2>3. HasRead'
    BY <1>0, <2>1, <2>2 DEF HasRead
  <2> QED  BY <1>0, <1>4, <2>1, <2>2, <2>3 DEF PutsIt
<1>8. ASSUME NEW c \in Clients, NotesIt(c) PROVE Typed /\ HasRead'
  <2>1. PICK r \in Command : /\ cmd' = [cmd EXCEPT ![c] = r] /\ r.pc \notin {"put", "note"}
                             /\ r.pc \in {"derive", "health"} => r.seen = cmd[c].document
                             /\ cmd[c].pc = "note"
    BY <1>8 DEF NotesIt
  <2>2. cmd[c].document \in Document
    BY <2>1 DEF HasRead
  <2>3. HasRead'
    BY <1>0, <2>1, <2>2 DEF HasRead
  <2> QED  BY <1>0, <1>8, <2>1, <2>2, <2>3 DEF NotesIt
<1>5. ASSUME Wipe PROVE Typed /\ HasRead'
  BY <1>0, <1>5 DEF Wipe, HasRead
<1>6. ASSUME Break PROVE Typed /\ HasRead'
  BY <1>0, <1>6 DEF Break, HasRead
<1>7. ASSUME UNCHANGED vars PROVE Typed /\ HasRead'
  BY <1>0, <1>7 DEF vars, HasRead
<1> HIDE DEF Typed
<1>9. Typed /\ HasRead'
  BY <1>1, <1>2, <1>3, <1>4, <1>5, <1>6, <1>7, <1>8, StepIs
<1> QED  BY <1>9, CountersType DEF TypeOK, Typed

\* The file, the package, every client's command and what it keeps have their types.
THEOREM TypeCorrect == Spec => []TypeOK
<1> QED  BY InitType, NextType, PTL DEF Spec

-----------------------------------------------------------------------------
(* One write at a time: what is put was merged into what is there.         *)

\* One client at most is between write_config's read and its rename.
OnePut == \A c, d \in Clients : cmd[c].pc = "put" /\ cmd[d].pc = "put" => c = d

\* What is put is the file as it is with the patch on top.
PutIsCurrent ==
  \A c \in Clients : cmd[c].pc = "put" =>
    config # Broken /\ cmd[c].document = Merged(config, cmd[c].patch)

WritesWhole == OnePut /\ PutIsCurrent

LEMMA NextWritesWhole ==
  ASSUME TypeOK, HasRead, WritesWhole, "whole" \in Assumed, [Next]_vars PROVE WritesWhole'
<1>0. cmd \in [Clients -> Command]
  BY DEF TypeOK
<1>1. ASSUME NEW c \in Clients, BeginsWrite(c) \/ GoesOn(c) \/ NotesIt(c) PROVE WritesWhole'
  <2>1. config' = config /\ cmd'[c].pc # "put" /\ \A d \in Clients \ {c} : cmd'[d] = cmd[d]
    BY <1>0, <1>1 DEF BeginsWrite, GoesOn, NotesIt
  <2> QED  BY <2>1 DEF WritesWhole, OnePut, PutIsCurrent
<1>2. ASSUME NEW c \in Clients, MergesIt(c) PROVE WritesWhole'
  <2>1. /\ config' = config /\ config # Broken
        /\ cmd'[c].pc = "put" /\ cmd'[c].document = Merged(config, cmd'[c].patch)
        /\ \A d \in Clients \ {c} : cmd'[d] = cmd[d] /\ cmd[d].pc # "put"
    BY <1>0, <1>2 DEF MergesIt
  <2>2. OnePut'
    BY <2>1 DEF OnePut
  <2>3. PutIsCurrent'
    BY <2>1 DEF PutIsCurrent, Merged, Base
  <2> QED  BY <2>2, <2>3 DEF WritesWhole
<1>3. ASSUME NEW c \in Clients, PutsIt(c) PROVE WritesWhole'
  <2>1. \A d \in Clients : cmd'[d].pc # "put"
    BY <1>0, <1>3 DEF PutsIt, WritesWhole, OnePut
  <2> QED  BY <2>1 DEF WritesWhole, OnePut, PutIsCurrent
<1>4. CASE Wipe \/ Break
  BY <1>4 DEF Wipe, Break, WritesWhole, OnePut, PutIsCurrent
<1>5. CASE UNCHANGED vars
  BY <1>5 DEF vars, WritesWhole, OnePut, PutIsCurrent
<1> QED  BY <1>1, <1>2, <1>3, <1>4, <1>5, StepIs

LEMMA InitWritesWhole == Init => WritesWhole
BY DEF Init, Off, WritesWhole, OnePut, PutIsCurrent

\* What a put leaves: of the keys that it names what it says, of the others what was there.
LEMMA PutLeaves ==
  ASSUME TypeOK, HasRead, WritesWhole, NEW c \in Clients, PutsIt(c)
  PROVE  /\ config # Broken /\ config' \in Document /\ Base(config') = config'
         /\ \A k \in Keys : config'[k] = IF k \in DOMAIN cmd[c].patch THEN cmd[c].patch[k]
                                                                      ELSE Base(config)[k]
<1>1. /\ config # Broken /\ config' = Merged(config, cmd[c].patch)
  BY DEF PutsIt, WritesWhole, PutIsCurrent
<1>2. config \in Document \cup {None} /\ cmd[c].patch \in Patches
  BY <1>1, Readable DEF TypeOK, Command
<1>3. config' \in Document
  BY <1>1, <1>2, MergedIs
<1>4. Base(config') = config'
  BY <1>3, DocumentAssumption DEF Base
<1> QED  BY <1>1, <1>2, <1>3, <1>4, MergedIs

-----------------------------------------------------------------------------
(* A card is named once.                                                   *)

\* Of two patches on their way one at most names cards, or the environment.
Apart(keys) ==
  \A c, d \in Clients : Touches(cmd[c].patch, keys) /\ Touches(cmd[d].patch, keys) => c = d

\* Steps that only begin with a patch what leaves others' alone keep them apart.
LEMMA StaysApart ==
  ASSUME TypeOK, HasRead, [Next]_vars, NEW a \in {"cards", "env"}, a \in Assumed, NEW keys,
         keys = IF a = "cards" THEN CardKeys ELSE {"env"},
         Apart(keys)
  PROVE  Apart(keys)'
<1>0. cmd \in [Clients -> Command]
  BY DEF TypeOK
<1>1. ASSUME NEW c \in Clients, BeginsWrite(c) PROVE Apart(keys)'
  <2>1. PICK r \in Command : cmd' = [cmd EXCEPT ![c] = r] /\ Undisturbed(c, r.patch)
    BY <1>1 DEF BeginsWrite
  <2>2. Touches(r.patch, keys) => \A d \in Clients \ {c} : ~Touches(cmd[d].patch, keys)
    BY <2>1 DEF Undisturbed, CardKeys
  <2>3. cmd'[c].patch = r.patch /\ \A d \in Clients \ {c} : cmd'[d].patch = cmd[d].patch
    BY <1>0, <2>1
  <2> QED  BY <2>2, <2>3 DEF Apart
<1>2. ASSUME \A d \in Clients : cmd'[d].patch \in {<<>>, cmd[d].patch} PROVE Apart(keys)'
  <2>1. ~Touches(<<>>, keys)
    BY DEF Touches
  <2> QED  BY <1>2, <2>1 DEF Apart
<1>3. ASSUME NEW c \in Clients, GoesOn(c) \/ MergesIt(c) \/ PutsIt(c) \/ NotesIt(c)
      PROVE  \A d \in Clients : cmd'[d].patch \in {<<>>, cmd[d].patch}
  BY <1>0, <1>3 DEF GoesOn, MergesIt, PutsIt, NotesIt
<1>4. CASE Wipe \/ Break \/ UNCHANGED vars
  <2>1. cmd' = cmd
    BY <1>4 DEF Wipe, Break, vars
  <2> QED  BY <1>2, <2>1
<1> QED  BY <1>1, <1>2, <1>3, <1>4, StepIs

\* A document in which no card is named twice.
OnceIn(document) == document \in Document => ~NamedTwice(TrueTable, document)

\* Every document that may be written somewhere is one.
OnceEverywhere ==
  /\ OnceIn(config)
  /\ \A c \in Clients : OnceIn(cache[c]) /\ OnceIn(cmd[c].seen) /\ OnceIn(cmd[c].document)

\* A patch that names cards was judged on the cards that the file still has.
JudgedRight ==
  \A c \in Clients :
    cmd[c].pc = "merge" /\ config # Broken /\ Touches(cmd[c].patch, CardKeys) =>
      ~Twice(config, cmd[c].patch)

CardsOnce == Apart(CardKeys) /\ OnceEverywhere /\ JudgedRight

\* What a document names twice depends on its lists of cards only.
LEMMA ClaimsSame ==
  ASSUME NEW d, NEW e, \A k \in CardKeys : d[k] = e[k]
  PROVE  NamedTwice(TrueTable, d) <=> NamedTwice(TrueTable, e)
<1>1. d.gpus = e.gpus /\ d.shared_gpus = e.shared_gpus
  BY DEF CardKeys
<1>2. Claims(d) = Claims(e)
  BY <1>1 DEF Claims
<1> QED  BY <1>2 DEF NamedTwice

LEMMA TwiceSame ==
  ASSUME NEW p \in Patches, NEW d \in Document \cup {None}, NEW e \in Document \cup {None},
         \A k \in CardKeys : Base(d)[k] = Base(e)[k]
  PROVE  Twice(d, p) <=> Twice(e, p)
<1>1. \A k \in CardKeys : Merged(d, p)[k] = Merged(e, p)[k]
  BY MergedIs DEF CardKeys, Keys
<1> QED  BY <1>1, ClaimsSame DEF Twice

\* Where no list has a name, no card has two.
LEMMA NoNames ==
  ASSUME NEW d, d.gpus \in {{}, All}, d.shared_gpus = {} PROVE ~NamedTwice(TrueTable, d)
<1>1. Claims(d) = {}
  BY DEF Claims
<1> QED  BY <1>1 DEF NamedTwice

\* A merge that names no card names none twice where the document did not.
LEMMA MergedOnce ==
  ASSUME NEW p \in Patches, NEW d \in Document \cup {None}, OnceIn(d),
         Touches(p, CardKeys) => ~Twice(d, p)
  PROVE  OnceIn(Merged(d, p))
<1>1. CASE Touches(p, CardKeys)
  BY <1>1 DEF OnceIn, Twice
<1>2. CASE ~Touches(p, CardKeys)
  <2>1. \A k \in CardKeys : Merged(d, p)[k] = Base(d)[k]
    BY <1>2, MergedIs DEF Touches, CardKeys, Keys
  <2>2. OnceIn(Default)
    <3>1. Default.gpus = {} /\ Default.shared_gpus = {}
      BY DEF Default
    <3> QED  BY <3>1, NoNames DEF OnceIn
  <2>3. OnceIn(Base(d)) /\ Base(d) \in Document
    BY <2>2, MergedIs DEF Base
  <2>4. ~NamedTwice(TrueTable, Base(d))
    BY <2>3 DEF OnceIn
  <2> QED  BY <2>1, <2>4, ClaimsSame DEF OnceIn
<1> QED  BY <1>1, <1>2

\* A restored config names no card twice if the one it is restored from does not.
LEMMA RestoredOnce ==
  ASSUME TypeOK, OnceEverywhere, NEW c \in Clients, NEW p \in Patches, Restored(c, p)
  PROVE  ~Twice(None, p)
<1>1. CASE p = [k \in {"gpus"} |-> All]
  <2>1. /\ Merged(None, p)["gpus"] = p["gpus"] /\ p["gpus"] = All
        /\ Merged(None, p)["shared_gpus"] = Base(None)["shared_gpus"]
    BY <1>1, MergedIs DEF Keys
  <2>2. Base(None)["shared_gpus"] = {}
    BY DEF Base, Default
  <2> QED  BY <2>1, <2>2, NoNames DEF Twice
<1>2. CASE cache[c] # None /\ p = cache[c]
  <2>1. p \in Document /\ OnceIn(p)
    BY <1>2 DEF OnceEverywhere, TypeOK
  <2>2. \A k \in CardKeys : Merged(None, p)[k] = p[k]
    BY <2>1, WholePatches, MergedIs DEF CardKeys, Keys
  <2> QED  BY <2>1, <2>2, ClaimsSame DEF Twice, OnceIn
<1> QED  BY <1>1, <1>2 DEF Restored

LEMMA BeginsWriteOnce ==
  ASSUME TypeOK, HasRead, CardsOnce, "tables" \in Assumed, NEW c \in Clients, BeginsWrite(c)
  PROVE  OnceEverywhere' /\ JudgedRight'
<1>0. cmd \in [Clients -> Command]
  BY DEF TypeOK
<1>1. PICK r \in Command :
        /\ cmd' = [cmd EXCEPT ![c] = r]
        /\ r.seen \in {None, config, cmd[c].seen} /\ r.document \in {None, cmd[c].document}
        /\ \/ config # Broken /\ ~Twice(config, r.patch)
           \/ config = None /\ Restored(c, r.patch)
           \/ DOMAIN r.patch = {"env"}
           \/ DOMAIN r.patch = {"pkg_commit"}
  BY DEF BeginsWrite
<1>2. config' = config /\ cache' = cache
  BY DEF BeginsWrite
<1>3. cmd'[c] = r /\ \A d \in Clients \ {c} : cmd'[d] = cmd[d]
  BY <1>0, <1>1
<1>4. OnceIn(None)
  BY DocumentAssumption DEF OnceIn
<1>5. OnceEverywhere'
  BY <1>1, <1>2, <1>3, <1>4 DEF CardsOnce, OnceEverywhere, OnceIn
<1>6. r.patch \in Patches
  BY DEF Command
<1>7. Touches(r.patch, CardKeys) => ~Twice(config, r.patch)
  <2>1. CASE config = None /\ Restored(c, r.patch)
    BY <1>6, <2>1, RestoredOnce DEF CardsOnce
  <2>2. CASE DOMAIN r.patch = {"env"} \/ DOMAIN r.patch = {"pkg_commit"}
    BY <2>2 DEF Touches, CardKeys
  <2> QED  BY <1>1, <2>1, <2>2
<1>8. JudgedRight'
  BY <1>2, <1>3, <1>7 DEF CardsOnce, JudgedRight, Twice, Merged
<1> QED  BY <1>5, <1>8

LEMMA GoesOnOnce ==
  ASSUME TypeOK, CardsOnce, NEW c \in Clients, GoesOn(c)
  PROVE  OnceEverywhere' /\ JudgedRight'
<1>0. cmd \in [Clients -> Command] /\ cache \in [Clients -> Document \cup {None}]
  BY DEF TypeOK
<1>1. PICK r \in Command :
        /\ cmd' = [cmd EXCEPT ![c] = r] /\ r.pc # "merge"
        /\ r.seen \in {None, config, cmd[c].seen} /\ r.document \in {None, cmd[c].document}
  BY DEF GoesOn
<1>2. /\ config' = config
      /\ \A d \in Clients : cache'[d] \in {cache[d], config, cmd[d].seen}
  BY <1>0 DEF GoesOn
<1>3. cmd'[c] = r /\ \A d \in Clients \ {c} : cmd'[d] = cmd[d]
  BY <1>0, <1>1
<1>4. OnceIn(None)
  BY DocumentAssumption DEF OnceIn
<1>5. OnceEverywhere'
  BY <1>1, <1>2, <1>3, <1>4 DEF CardsOnce, OnceEverywhere, OnceIn
<1>6. JudgedRight'
  BY <1>1, <1>2, <1>3 DEF CardsOnce, JudgedRight, Twice, Merged
<1> QED  BY <1>5, <1>6

LEMMA MergesItOnce ==
  ASSUME TypeOK, CardsOnce, NEW c \in Clients, MergesIt(c)
  PROVE  OnceEverywhere' /\ JudgedRight'
<1>0. cmd \in [Clients -> Command]
  BY DEF TypeOK
<1>1. PICK r \in Command :
        /\ cmd' = [cmd EXCEPT ![c] = r] /\ r.pc = "put" /\ cmd[c].pc = "merge"
        /\ r.seen = cmd[c].seen /\ r.patch = cmd[c].patch /\ r.document = Merged(config, r.patch)
  BY DEF MergesIt
<1>2. config' = config /\ cache' = cache /\ config \in Document \cup {None} /\ config # Broken
  BY Readable DEF MergesIt
<1>3. cmd'[c] = r /\ \A d \in Clients \ {c} : cmd'[d] = cmd[d]
  BY <1>0, <1>1
<1>4. OnceIn(r.document)
  <2>1. r.patch \in Patches
    BY DEF Command
  <2>2. Touches(r.patch, CardKeys) => ~Twice(config, r.patch)
    BY <1>1, <1>2 DEF CardsOnce, JudgedRight
  <2> QED  BY <1>1, <1>2, <2>1, <2>2, MergedOnce DEF CardsOnce, OnceEverywhere
<1>5. OnceEverywhere'
  BY <1>1, <1>2, <1>3, <1>4 DEF CardsOnce, OnceEverywhere, OnceIn
<1>6. JudgedRight'
  BY <1>1, <1>2, <1>3 DEF CardsOnce, JudgedRight, Twice, Merged
<1> QED  BY <1>5, <1>6

\* Whoever else has judged the cards is the only one to write them.
LEMMA PutsItOnce ==
  ASSUME TypeOK, HasRead, WritesWhole, CardsOnce, NEW c \in Clients, PutsIt(c)
  PROVE  OnceEverywhere' /\ JudgedRight'
<1>0. cmd \in [Clients -> Command] /\ cache \in [Clients -> Document \cup {None}]
  BY DEF TypeOK
<1>1. PICK r \in Command :
        /\ cmd' = [cmd EXCEPT ![c] = r] /\ r.pc # "merge"
        /\ r.seen = None /\ r.document = cmd[c].document
  BY DEF PutsIt
<1>2. config' = cmd[c].document /\ cache' = cache
  BY DEF PutsIt
<1>3. cmd'[c] = r /\ \A d \in Clients \ {c} : cmd'[d] = cmd[d]
  BY <1>0, <1>1
<1>4. OnceIn(None)
  BY DocumentAssumption DEF OnceIn
<1>5. OnceEverywhere'
  BY <1>1, <1>2, <1>3, <1>4 DEF CardsOnce, OnceEverywhere, OnceIn
<1>6. ASSUME NEW d \in Clients, d # c, cmd[d].pc = "merge", Touches(cmd[d].patch, CardKeys)
      PROVE  ~Twice(config', cmd[d].patch)
  <2>1. ~Touches(cmd[c].patch, CardKeys)
    BY <1>6 DEF CardsOnce, Apart
  <2>2. \A k \in CardKeys : Base(config')[k] = Base(config)[k]
    BY <2>1, PutLeaves DEF Touches, CardKeys, Keys
  <2>3. /\ config # Broken /\ config \in Document \cup {None} /\ config' \in Document \cup {None}
        /\ cmd[d].patch \in Patches
    BY <1>0, PutLeaves, Readable DEF Command
  <2>4. ~Twice(config, cmd[d].patch)
    BY <1>6, <2>3 DEF CardsOnce, JudgedRight
  <2> QED  BY <2>2, <2>3, <2>4, TwiceSame
<1>7. JudgedRight'
  BY <1>1, <1>3, <1>6 DEF JudgedRight, Twice, Merged
<1> QED  BY <1>5, <1>7

LEMMA NotesItOnce ==
  ASSUME TypeOK, CardsOnce, NEW c \in Clients, NotesIt(c)
  PROVE  OnceEverywhere' /\ JudgedRight'
<1>0. cmd \in [Clients -> Command] /\ cache \in [Clients -> Document \cup {None}]
  BY DEF TypeOK
<1>1. PICK r \in Command :
        /\ cmd' = [cmd EXCEPT ![c] = r] /\ r.pc # "merge"
        /\ r.seen \in {None, cmd[c].document} /\ r.document = None
  BY DEF NotesIt
<1>2. /\ config' = config
      /\ \A d \in Clients : cache'[d] \in {cache[d], cmd[c].document}
  BY <1>0 DEF NotesIt
<1>3. cmd'[c] = r /\ \A d \in Clients \ {c} : cmd'[d] = cmd[d]
  BY <1>0, <1>1
<1>4. OnceIn(None)
  BY DocumentAssumption DEF OnceIn
<1>5. OnceEverywhere'
  BY <1>1, <1>2, <1>3, <1>4 DEF CardsOnce, OnceEverywhere, OnceIn
<1>6. JudgedRight'
  BY <1>1, <1>2, <1>3 DEF CardsOnce, JudgedRight, Twice, Merged
<1> QED  BY <1>5, <1>6

LEMMA NextCardsOnce ==
  ASSUME TypeOK, HasRead, WritesWhole, CardsOnce, {"cards", "tables"} \subseteq Assumed, [Next]_vars
  PROVE  CardsOnce'
<1>1. Apart(CardKeys)'
  BY StaysApart DEF CardsOnce
<1>2. ASSUME Wipe \/ Break \/ UNCHANGED vars PROVE OnceEverywhere' /\ JudgedRight'
  <2>1. OnceIn(None) /\ OnceIn(Broken)
    BY DocumentAssumption DEF OnceIn
  <2>2. CASE Wipe
    BY <2>1, <2>2 DEF Wipe, CardsOnce, OnceEverywhere, JudgedRight, OnceIn
  <2>3. CASE Break
    BY <2>1, <2>3 DEF Break, CardsOnce, OnceEverywhere, JudgedRight, OnceIn
  <2>4. CASE UNCHANGED vars
    BY <2>4 DEF vars, CardsOnce, OnceEverywhere, JudgedRight, OnceIn, Twice, Merged
  <2> QED  BY <1>2, <2>2, <2>3, <2>4
<1>3. OnceEverywhere' /\ JudgedRight'
  BY <1>2, BeginsWriteOnce, GoesOnOnce, MergesItOnce, PutsItOnce, NotesItOnce, StepIs
<1> QED  BY <1>1, <1>3 DEF CardsOnce

LEMMA InitCardsOnce == Init => CardsOnce
<1>1. OnceIn(None)
  BY DocumentAssumption DEF OnceIn
<1>2. ~Touches(<<>>, CardKeys)
  BY DEF Touches
<1> QED  BY <1>1, <1>2 DEF Init, Off, CardsOnce, Apart, OnceEverywhere, JudgedRight

LEMMA CardsOnceIs == TypeOK /\ CardsOnce => OwnedOnce
BY DEF CardsOnce, OnceEverywhere, OnceIn, OwnedOnce

\* No config names a card twice, for any number of clients, cards and names of them,
\* wherever their commands fail and whatever is restored (_refuse_shared_overlap,
\* gpus.resolve, first_config): when a write is whole, nobody else names cards between
\* a command's look at them and its write, and every client resolves names as the
\* host does.
THEOREM CardsAreNamedOnce ==
  ASSUME {"whole", "cards", "tables"} \subseteq Assumed PROVE Spec => []OwnedOnce
<1>1. TypeOK /\ HasRead /\ WritesWhole /\ [Next]_vars => WritesWhole'
  BY NextWritesWhole
<1>2. TypeOK /\ HasRead /\ WritesWhole /\ CardsOnce /\ [Next]_vars => CardsOnce'
  BY NextCardsOnce
<1> QED  BY InitType, NextType, InitWritesWhole, InitCardsOnce, CardsOnceIs, <1>1, <1>2, PTL DEF Spec

-----------------------------------------------------------------------------
(* A write keeps what it is not about.                                     *)

\* Of the leaves that a write is not about its patch names none with another
\* value than the file still has, if the command found a file.
SaysWhatItIsAbout ==
  \A c \in Clients : Writing(c) /\ config # Broken /\ cmd[c].seen # None =>
    AboutFits(config, cmd[c].patch, cmd[c].about)

\* What found no file still puts where there is none.
FirstIsFirst == \A c \in Clients : cmd[c].pc = "put" /\ cmd[c].seen = None => config = None

EnvKept == Apart({"env"}) /\ SaysWhatItIsAbout

LEMMA AboutFitsSame ==
  ASSUME NEW p, NEW a, NEW d, NEW e,
         "env" \in DOMAIN p => Base(d)["env"] = Base(e)["env"], AboutFits(d, p, a)
  PROVE  AboutFits(e, p, a)
BY DEF AboutFits, LeafKey

LEMMA NextEnvKept ==
  ASSUME TypeOK, HasRead, WritesWhole, EnvKept, "env" \in Assumed, [Next]_vars
  PROVE  EnvKept'
<1>0. cmd \in [Clients -> Command]
  BY DEF TypeOK
<1>1. Apart({"env"})'
  BY StaysApart DEF EnvKept
<1>2. ASSUME NEW c \in Clients, BeginsWrite(c) PROVE SaysWhatItIsAbout'
  <2>1. PICK r \in Command : /\ cmd' = [cmd EXCEPT ![c] = r]
                             /\ config # Broken /\ r.seen # None =>
                                  AboutFits(config, r.patch, r.about)
    BY <1>2 DEF BeginsWrite
  <2>2. config' = config /\ cmd'[c] = r /\ \A d \in Clients \ {c} : cmd'[d] = cmd[d]
    BY <1>0, <1>2, <2>1 DEF BeginsWrite
  <2>3. config' # Broken /\ cmd'[c].seen # None => AboutFits(config', cmd'[c].patch, cmd'[c].about)
    BY <2>1, <2>2
  <2>4. ASSUME NEW d \in Clients \ {c}, Writing(d)', config' # Broken, cmd'[d].seen # None
        PROVE  AboutFits(config', cmd'[d].patch, cmd'[d].about)
    BY <2>2, <2>4 DEF EnvKept, SaysWhatItIsAbout, Writing
  <2>5. \A d \in Clients : Writing(d)' /\ config' # Broken /\ cmd'[d].seen # None =>
          AboutFits(config', cmd'[d].patch, cmd'[d].about)
    BY <2>3, <2>4
  <2> QED  BY <2>5 DEF SaysWhatItIsAbout, AboutFits, Base
<1>3. ASSUME NEW c \in Clients, GoesOn(c) \/ MergesIt(c) \/ NotesIt(c) PROVE SaysWhatItIsAbout'
  <2>1. /\ config' = config
        /\ \A d \in Clients : Writing(d)' => /\ Writing(d) /\ cmd'[d].patch = cmd[d].patch
                                             /\ cmd'[d].about = cmd[d].about
                                             /\ cmd'[d].seen = cmd[d].seen
    BY <1>0, <1>3 DEF GoesOn, MergesIt, NotesIt, Writing
  <2> QED  BY <2>1 DEF EnvKept, SaysWhatItIsAbout, AboutFits, Base
<1>4. ASSUME NEW c \in Clients, PutsIt(c) PROVE SaysWhatItIsAbout'
  <2>1. ~Writing(c)' /\ \A d \in Clients \ {c} : cmd'[d] = cmd[d]
    BY <1>0, <1>4 DEF PutsIt, Writing
  <2>2. ASSUME NEW d \in Clients \ {c}, Writing(d), cmd[d].seen # None
        PROVE  AboutFits(config', cmd[d].patch, cmd[d].about)
    <3>1. "env" \in DOMAIN cmd[d].patch => "env" \notin DOMAIN cmd[c].patch
      BY DEF EnvKept, Apart, Touches
    <3>2. /\ config # Broken
          /\ "env" \notin DOMAIN cmd[c].patch => Base(config')["env"] = Base(config)["env"]
      BY <1>4, PutLeaves DEF Keys
    <3>3. AboutFits(config, cmd[d].patch, cmd[d].about)
      BY <2>2, <3>2 DEF EnvKept, SaysWhatItIsAbout
    <3> QED  BY <3>1, <3>2, <3>3, AboutFitsSame
  <2> QED  BY <2>1, <2>2 DEF SaysWhatItIsAbout, AboutFits, Base, Writing
<1>5. ASSUME Wipe PROVE SaysWhatItIsAbout'
  BY <1>5 DEF Wipe, SaysWhatItIsAbout, Writing
<1>6. ASSUME Break PROVE SaysWhatItIsAbout'
  BY <1>6 DEF Break, SaysWhatItIsAbout
<1>7. ASSUME UNCHANGED vars PROVE SaysWhatItIsAbout'
  BY <1>7 DEF vars, EnvKept, SaysWhatItIsAbout, AboutFits, Base, Writing
<1>8. SaysWhatItIsAbout'
  BY <1>2, <1>3, <1>4, <1>5, <1>6, <1>7, StepIs
<1> QED  BY <1>1, <1>8 DEF EnvKept

LEMMA InitEnvKept == Init => EnvKept
<1>1. ~Touches(<<>>, {"env"})
  BY DEF Touches
<1> QED  BY <1>1 DEF Init, Off, EnvKept, Apart, SaysWhatItIsAbout, Writing

LEMMA NextFirstIsFirst ==
  ASSUME TypeOK, HasRead, WritesWhole, FirstIsFirst, "first" \in Assumed, [Next]_vars
  PROVE  FirstIsFirst'
<1>0. cmd \in [Clients -> Command]
  BY DEF TypeOK
<1>1. ASSUME NEW c \in Clients, BeginsWrite(c) \/ GoesOn(c) \/ NotesIt(c) PROVE FirstIsFirst'
  <2>1. config' = config /\ cmd'[c].pc # "put" /\ \A d \in Clients \ {c} : cmd'[d] = cmd[d]
    BY <1>0, <1>1 DEF BeginsWrite, GoesOn, NotesIt
  <2> QED  BY <2>1 DEF FirstIsFirst
<1>2. ASSUME NEW c \in Clients, MergesIt(c) PROVE FirstIsFirst'
  <2>1. /\ config' = config
        /\ cmd'[c].seen = None => config = None
        /\ \A d \in Clients \ {c} : cmd'[d] = cmd[d]
    BY <1>0, <1>2 DEF MergesIt
  <2> QED  BY <2>1 DEF FirstIsFirst
<1>3. ASSUME NEW c \in Clients, PutsIt(c) PROVE FirstIsFirst'
  <2>1. \A d \in Clients : cmd'[d].pc # "put"
    BY <1>0, <1>3 DEF PutsIt, WritesWhole, OnePut
  <2> QED  BY <2>1 DEF FirstIsFirst
<1>4. CASE Wipe \/ Break
  BY <1>4 DEF Wipe, Break, FirstIsFirst
<1>5. CASE UNCHANGED vars
  BY <1>5 DEF vars, FirstIsFirst
<1> QED  BY <1>1, <1>2, <1>3, <1>4, <1>5, StepIs

LEMMA InitFirstIsFirst == Init => FirstIsFirst
BY DEF Init, Off, FirstIsFirst

\* What a put changes is what its command is about.
LEMMA PutKeepsOthers ==
  ASSUME TypeOK, HasRead, WritesWhole, EnvKept, FirstIsFirst, NEW c \in Clients, PutConfig(c)
  PROVE  /\ config # Broken
         /\ config \in Document =>
              \A l \in AllLeaves \ cmd[c].about : Leaf(config', l) = Leaf(config, l)
<1>1. PutsIt(c) /\ Writing(c)
  BY PutConfigIs DEF PutConfig, Writing
<1>2. config # Broken
  BY <1>1, PutLeaves
<1>3. ASSUME config \in Document, NEW l \in AllLeaves \ cmd[c].about
      PROVE  Leaf(config', l) = Leaf(config, l)
  <2>1. Base(config) = config /\ cmd[c].seen # None
    BY <1>3, DocumentAssumption DEF Base, FirstIsFirst, PutConfig
  <2>2. LeafKey(l) \in Keys
    BY DEF LeafKey, AllLeaves, Keys
  <2>3. config'[LeafKey(l)] = IF LeafKey(l) \in DOMAIN cmd[c].patch THEN cmd[c].patch[LeafKey(l)]
                              ELSE config[LeafKey(l)]
    BY <1>1, <2>1, <2>2, PutLeaves
  <2>4. LeafKey(l) \in DOMAIN cmd[c].patch =>
          l \in {"user", "cache"} /\ cmd[c].patch["env"][l] = config["env"][l]
    BY <1>1, <1>2, <2>1 DEF EnvKept, SaysWhatItIsAbout, AboutFits
  <2> QED  BY <2>3, <2>4 DEF Leaf, LeafKey
<1> QED  BY <1>2, <1>3

\* A write changes only what its command is about, for any number of clients and
\* of commands between them (write_config, sticky_env, derive_env, and bootstrap's
\* whole config of a wiped home), and no file that cannot be read is written
\* over: when a write is whole, nobody else names the environment between a
\* command's look at it and its write, and nobody else gives a host its first config
\* between a command's finding none and its write.
THEOREM WritesKeepOthers ==
  ASSUME {"whole", "env", "first"} \subseteq Assumed PROVE Spec => KeepsOthers
<1>1. TypeOK /\ HasRead /\ WritesWhole /\ [Next]_vars => WritesWhole'
  BY NextWritesWhole
<1>2. TypeOK /\ HasRead /\ WritesWhole /\ EnvKept /\ [Next]_vars => EnvKept'
  BY NextEnvKept
<1>3. TypeOK /\ HasRead /\ WritesWhole /\ FirstIsFirst /\ [Next]_vars => FirstIsFirst'
  BY NextFirstIsFirst
<1>4. TypeOK /\ HasRead /\ WritesWhole /\ EnvKept /\ FirstIsFirst /\ [Next]_vars =>
        [\A c \in Clients : PutConfig(c) =>
           /\ config # Broken
           /\ config \in Document =>
                \A l \in AllLeaves \ cmd[c].about : Leaf(config', l) = Leaf(config, l)]_vars
  BY PutKeepsOthers
<1> QED  BY InitType, NextType, InitWritesWhole, InitEnvKept, InitFirstIsFirst,
         <1>1, <1>2, <1>3, <1>4, PTL DEF Spec, KeepsOthers

-----------------------------------------------------------------------------
(* A host has the package that it names.                                   *)

\* A ship that has taken the old package away, up to its commit.
PastRemove(c) == cmd[c].pc = "rsync" \/ (cmd[c].kind = "ship" /\ Writing(c))

\* Beside a ship that has begun in earnest any other still waits to begin.
OneShip ==
  \A c, d \in Clients : c # d /\ PastRemove(c) /\ Shipping(d) => cmd[d].pc = "remove"

\* Nobody ships to a host that has no config.
NoneYet ==
  config = None => \A c \in Clients : \/ cmd[c].pc = "off"
                                      \/ Writing(c) /\ cmd[c].kind \in {"set", "first"}

\* A ship records the build that it has brought, and that is still there.
ShipsItsOwn ==
  \A c \in Clients : cmd[c].kind = "ship" /\ Writing(c) =>
    pkg = BuildOf[c] /\ "pkg_commit" \in DOMAIN cmd[c].patch /\ cmd[c].patch["pkg_commit"] = BuildOf[c]

\* No other command names a build.
OnlyShipsName ==
  \A c \in Clients : cmd[c].kind \in {"set", "derive"} /\ Writing(c) =>
    "pkg_commit" \notin DOMAIN cmd[c].patch

ShipsInOrder == OneShip /\ NoneYet /\ ShipsItsOwn /\ OnlyShipsName /\ PkgIsWhatItSays

LEMMA BeginsWriteShips ==
  ASSUME TypeOK, ShipsInOrder, NEW c \in Clients, BeginsWrite(c) PROVE ShipsInOrder'
<1>0. cmd \in [Clients -> Command]
  BY DEF TypeOK
<1>1. PICK r \in Command :
       /\ cmd' = [cmd EXCEPT ![c] = r] /\ r.pc = "merge"
       /\ \/ /\ r.kind = "set" /\ cmd[c].pc = "off" /\ pkg' = pkg
             /\ "pkg_commit" \notin DOMAIN r.patch
          \/ r.kind = "first" /\ cmd[c].pc = "off" /\ config = None /\ pkg' = pkg
          \/ /\ r.kind = "derive" /\ cmd[c].pc = "derive" /\ pkg' = pkg
             /\ DOMAIN r.patch = {"env"}
          \/ /\ r.kind = "ship" /\ cmd[c].pc = "rsync" /\ pkg' = BuildOf[c]
             /\ DOMAIN r.patch = {"pkg_commit"} /\ r.patch["pkg_commit"] = BuildOf[c]
  BY DEF BeginsWrite
<1>2. /\ config' = config /\ cmd'[c] = r /\ \A d \in Clients \ {c} : cmd'[d] = cmd[d]
      /\ ~Writing(c)
  BY <1>0, <1>1 DEF BeginsWrite
<1>3. /\ \A d \in Clients \ {c} : /\ PastRemove(d)' <=> PastRemove(d)
                                  /\ Shipping(d)' <=> Shipping(d)
                                  /\ Writing(d)' <=> Writing(d)
      /\ Writing(c)'
      /\ PastRemove(c)' => r.kind = "ship" /\ PastRemove(c)
      /\ Shipping(c)' <=> r.kind \in {"ship", "first"}
  BY <1>1, <1>2 DEF PastRemove, Shipping, Writing
<1>4. r.kind = "ship" => PastRemove(c) /\ Shipping(c) /\ cmd[c].pc # "remove"
  BY <1>1, <1>2 DEF PastRemove, Shipping, Writing
<1>5. NoneYet'
  BY <1>1, <1>2, <1>3 DEF ShipsInOrder, NoneYet, Writing
<1>6. OneShip'
  <2>1. r.kind = "first" => \A d \in Clients \ {c} : ~PastRemove(d)
    BY <1>1, <1>2 DEF ShipsInOrder, NoneYet, PastRemove, Writing
  <2> QED  BY <1>2, <1>3, <1>4, <2>1 DEF ShipsInOrder, OneShip
<1>7. ShipsItsOwn'
  <2>1. \A d \in Clients \ {c} : r.kind = "ship" => ~(cmd[d].kind = "ship" /\ Writing(d))
    BY <1>4 DEF ShipsInOrder, OneShip, PastRemove
  <2>2. r.kind # "ship" => pkg' = pkg
    BY <1>1
  <2> QED  BY <1>1, <1>2, <1>3, <2>1, <2>2 DEF ShipsInOrder, ShipsItsOwn
<1>8. OnlyShipsName'
  BY <1>1, <1>2, <1>3 DEF ShipsInOrder, OnlyShipsName
<1>9. PkgIsWhatItSays'
  <2>1. CASE r.kind \in {"ship", "first"}
    BY <1>3, <2>1 DEF PkgIsWhatItSays
  <2>2. CASE r.kind \in {"set", "derive"}
    <3>1. pkg' = pkg /\ ~Shipping(c)
      BY <1>1, <1>2, <2>2 DEF Shipping, Writing
    <3> QED  BY <1>2, <1>3, <3>1 DEF ShipsInOrder, PkgIsWhatItSays
  <2> QED  BY <1>1, <2>1, <2>2
<1> QED  BY <1>5, <1>6, <1>7, <1>8, <1>9 DEF ShipsInOrder

LEMMA GoesOnShips ==
  ASSUME TypeOK, ShipsInOrder, "ships" \in Assumed, NEW c \in Clients, GoesOn(c)
  PROVE  ShipsInOrder'
<1>0. cmd \in [Clients -> Command]
  BY DEF TypeOK
<1>1. PICK r \in Command :
       /\ cmd' = [cmd EXCEPT ![c] = r]
       /\ \/ r.pc = "off" /\ pkg' = pkg /\ ~Shipping(c)
          \/ r.pc = "remove" /\ cmd[c].pc = "off" /\ config \in Document /\ pkg' = pkg
          \/ /\ r.pc = "rsync" /\ cmd[c].pc = "remove" /\ pkg' = None
             /\ \A d \in Clients \ {c} : ~Shipping(d) \/ cmd[d].pc = "remove"
          \/ r.pc = "health" /\ cmd[c].pc = "derive" /\ pkg' = pkg
  BY DEF GoesOn
<1>2. config' = config /\ cmd'[c] = r /\ \A d \in Clients \ {c} : cmd'[d] = cmd[d]
  BY <1>0, <1>1 DEF GoesOn
<1>3. /\ \A d \in Clients \ {c} : /\ PastRemove(d)' <=> PastRemove(d)
                                  /\ Shipping(d)' <=> Shipping(d)
                                  /\ Writing(d)' <=> Writing(d)
      /\ ~Writing(c)'
      /\ PastRemove(c)' <=> r.pc = "rsync"
      /\ Shipping(c)' <=> r.pc \in {"remove", "rsync"}
  BY <1>1, <1>2 DEF PastRemove, Shipping, Writing
<1>4. r.pc = "rsync" => \A d \in Clients \ {c} : ~PastRemove(d)
  BY <1>1 DEF PastRemove, Shipping, Writing
<1>5. NoneYet'
  BY <1>1, <1>2, <1>3, DocumentAssumption DEF ShipsInOrder, NoneYet, Writing
<1>6. OneShip'
  BY <1>1, <1>2, <1>3, <1>4 DEF ShipsInOrder, OneShip
<1>7. ShipsItsOwn'
  <2>1. \A d \in Clients \ {c} : r.pc = "rsync" => ~(cmd[d].kind = "ship" /\ Writing(d))
    BY <1>4 DEF PastRemove
  <2>2. r.pc # "rsync" => pkg' = pkg
    BY <1>1
  <2> QED  BY <1>2, <1>3, <2>1, <2>2 DEF ShipsInOrder, ShipsItsOwn
<1>8. OnlyShipsName'
  BY <1>2, <1>3 DEF ShipsInOrder, OnlyShipsName
<1>9. PkgIsWhatItSays'
  <2>1. CASE r.pc \in {"remove", "rsync"}
    BY <1>3, <2>1 DEF PkgIsWhatItSays
  <2>2. CASE r.pc \notin {"remove", "rsync"}
    <3>1. pkg' = pkg /\ ~Shipping(c)
      BY <1>1, <2>2 DEF Shipping
    <3> QED  BY <1>2, <1>3, <3>1 DEF ShipsInOrder, PkgIsWhatItSays
  <2> QED  BY <2>1, <2>2
<1> QED  BY <1>5, <1>6, <1>7, <1>8, <1>9 DEF ShipsInOrder

LEMMA MergesItShips ==
  ASSUME TypeOK, ShipsInOrder, NEW c \in Clients, MergesIt(c) PROVE ShipsInOrder'
<1>0. cmd \in [Clients -> Command]
  BY DEF TypeOK
<1>1. /\ config' = config /\ pkg' = pkg
      /\ \A d \in Clients : /\ cmd'[d].kind = cmd[d].kind /\ cmd'[d].patch = cmd[d].patch
                            /\ \/ cmd'[d].pc = cmd[d].pc
                               \/ cmd[d].pc = "merge" /\ cmd'[d].pc = "put"
  BY <1>0 DEF MergesIt
<1>2. \A d \in Clients : /\ PastRemove(d)' <=> PastRemove(d)
                         /\ Shipping(d)' <=> Shipping(d)
                         /\ Writing(d)' <=> Writing(d)
                         /\ (cmd'[d].pc = "remove") <=> (cmd[d].pc = "remove")
                         /\ (cmd'[d].pc = "off") <=> (cmd[d].pc = "off")
  BY <1>1 DEF PastRemove, Shipping, Writing
<1>3. OneShip' /\ NoneYet'
  BY <1>1, <1>2 DEF ShipsInOrder, OneShip, NoneYet
<1>4. ShipsItsOwn' /\ OnlyShipsName'
  BY <1>1, <1>2 DEF ShipsInOrder, ShipsItsOwn, OnlyShipsName
<1>5. PkgIsWhatItSays'
  BY <1>1, <1>2 DEF ShipsInOrder, PkgIsWhatItSays
<1> QED  BY <1>3, <1>4, <1>5 DEF ShipsInOrder

\* A commit is put where its package is; a restored one is shipped to next.
LEMMA PutsItShips ==
  ASSUME TypeOK, HasRead, WritesWhole, ShipsInOrder, NEW c \in Clients, PutsIt(c)
  PROVE  ShipsInOrder'
<1>0. cmd \in [Clients -> Command]
  BY DEF TypeOK
<1>1. PICK r \in Command :
        /\ cmd' = [cmd EXCEPT ![c] = r] /\ cmd[c].pc = "put" /\ r.pc = "note"
        /\ r.kind = cmd[c].kind
  BY DEF PutsIt
<1>2. /\ pkg' = pkg /\ cmd'[c] = r /\ \A d \in Clients \ {c} : cmd'[d] = cmd[d]
      /\ config' \in Document /\ config' # None
  BY <1>0, <1>1, PutLeaves, DocumentAssumption DEF PutsIt
<1>3. /\ \A d \in Clients \ {c} : /\ PastRemove(d)' <=> PastRemove(d)
                                  /\ Shipping(d)' <=> Shipping(d)
                                  /\ Writing(d)' <=> Writing(d)
      /\ ~Writing(c)' /\ ~PastRemove(c)' /\ Writing(c)
      /\ Shipping(c)' <=> cmd[c].kind = "first"
      /\ cmd[c].kind = "first" => Shipping(c)
  BY <1>1, <1>2 DEF PastRemove, Shipping, Writing
<1>4. NoneYet'
  BY <1>2 DEF NoneYet
<1>5. OneShip'
  BY <1>1, <1>2, <1>3 DEF ShipsInOrder, OneShip
<1>6. ShipsItsOwn' /\ OnlyShipsName'
  BY <1>2, <1>3 DEF ShipsInOrder, ShipsItsOwn, OnlyShipsName
<1>7. PkgIsWhatItSays'
  <2>1. CASE cmd[c].kind = "first"
    BY <1>3, <2>1 DEF PkgIsWhatItSays
  <2>2. CASE cmd[c].kind = "ship"
    <3>1. config'.pkg_commit = pkg
      BY <1>3, <2>2, PutLeaves DEF ShipsInOrder, ShipsItsOwn, Keys
    <3> QED  BY <1>2, <3>1 DEF PkgIsWhatItSays
  <2>3. CASE cmd[c].kind \in {"set", "derive"}
    <3>1. config'.pkg_commit = Base(config)["pkg_commit"]
      BY <1>3, <2>3, PutLeaves DEF ShipsInOrder, OnlyShipsName, Keys
    <3>2. ASSUME \A d \in Clients : ~Shipping(d)' PROVE Base(config)["pkg_commit"] \in {pkg, None}
      <4>1. \A d \in Clients : ~Shipping(d)
        BY <1>1, <1>3, <2>3, <3>2 DEF Shipping
      <4>2. config = None \/ (config \in Document /\ config # None)
        BY PutLeaves, Readable
      <4> QED  BY <4>1, <4>2 DEF ShipsInOrder, PkgIsWhatItSays, Base, Default
    <3> QED  BY <1>2, <3>1, <3>2 DEF PkgIsWhatItSays
  <2> QED  BY <1>0, <2>1, <2>2, <2>3 DEF Command
<1> QED  BY <1>4, <1>5, <1>6, <1>7 DEF ShipsInOrder

LEMMA NotesItShips ==
  ASSUME TypeOK, ShipsInOrder, NEW c \in Clients, NotesIt(c) PROVE ShipsInOrder'
<1>0. cmd \in [Clients -> Command]
  BY DEF TypeOK
<1>1. PICK r \in Command :
        /\ cmd' = [cmd EXCEPT ![c] = r] /\ cmd[c].pc = "note"
        /\ r.pc \in {"off", "remove", "derive", "health"}
        /\ r.pc = "remove" <=> cmd[c].kind = "first"
  BY DEF NotesIt
<1>2. /\ pkg' = pkg /\ config' = config
      /\ cmd'[c] = r /\ \A d \in Clients \ {c} : cmd'[d] = cmd[d]
  BY <1>0, <1>1 DEF NotesIt
<1>3. /\ \A d \in Clients \ {c} : /\ PastRemove(d)' <=> PastRemove(d)
                                  /\ Shipping(d)' <=> Shipping(d)
                                  /\ Writing(d)' <=> Writing(d)
      /\ ~Writing(c)' /\ ~PastRemove(c)' /\ ~Writing(c)
      /\ Shipping(c)' <=> Shipping(c)
  BY <1>1, <1>2 DEF PastRemove, Shipping, Writing
<1>4. NoneYet'
  BY <1>1, <1>2, <1>3 DEF ShipsInOrder, NoneYet
<1>5. OneShip'
  BY <1>1, <1>2, <1>3 DEF ShipsInOrder, OneShip
<1>6. ShipsItsOwn' /\ OnlyShipsName'
  BY <1>2, <1>3 DEF ShipsInOrder, ShipsItsOwn, OnlyShipsName
<1>7. PkgIsWhatItSays'
  BY <1>2, <1>3 DEF ShipsInOrder, PkgIsWhatItSays
<1> QED  BY <1>4, <1>5, <1>6, <1>7 DEF ShipsInOrder

LEMMA NextShipsInOrder ==
  ASSUME TypeOK, HasRead, WritesWhole, ShipsInOrder, "ships" \in Assumed, [Next]_vars
  PROVE  ShipsInOrder'
<1> USE DEF OneShip, NoneYet, ShipsItsOwn, OnlyShipsName, PastRemove, Shipping, Writing
<1>1. CASE Wipe
  BY <1>1, DocumentAssumption DEF Wipe, ShipsInOrder, PkgIsWhatItSays
<1>2. CASE Break
  BY <1>2, DocumentAssumption, HostConfigAssumption DEF Break, ShipsInOrder, PkgIsWhatItSays
<1>3. CASE UNCHANGED vars
  BY <1>3 DEF vars, ShipsInOrder, PkgIsWhatItSays
<1> QED  BY <1>1, <1>2, <1>3, StepIs, BeginsWriteShips, GoesOnShips, MergesItShips, PutsItShips,
     NotesItShips

LEMMA InitShipsInOrder == Init => ShipsInOrder
BY DocumentAssumption DEF Init, Off, ShipsInOrder, OneShip, NoneYet, ShipsItsOwn, OnlyShipsName,
   PkgIsWhatItSays, PastRemove, Shipping, Writing

\* Between ships a host that names a build has that build's package, for any
\* number of clients, of builds and of wiped homes (bootstrap's ship,
\* ensure_build): when a write is whole, and a ship neither cut short nor
\* overlapped by another.
THEOREM PackagesAreNamed ==
  ASSUME {"whole", "ships"} \subseteq Assumed PROVE Spec => []PkgIsWhatItSays
<1>1. TypeOK /\ HasRead /\ WritesWhole /\ [Next]_vars => WritesWhole'
  BY NextWritesWhole
<1>2. TypeOK /\ HasRead /\ WritesWhole /\ ShipsInOrder /\ [Next]_vars => ShipsInOrder'
  BY NextShipsInOrder
<1>3. ShipsInOrder => PkgIsWhatItSays
  BY DEF ShipsInOrder
<1> QED  BY InitType, NextType, InitWritesWhole, InitShipsInOrder, <1>1, <1>2, <1>3, PTL DEF Spec
=============================================================================
