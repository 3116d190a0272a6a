------------------------------ MODULE Aliases ------------------------------
(***************************************************************************)
(* The names under which OpenSSH knows the targets.  A name is a sequence  *)
(* of characters: letters of either case, digits, the marks an alias may   *)
(* contain, and any other character.                                       *)
(***************************************************************************)
EXTENDS CommandLine

CONSTANTS
  Suffix,          \* target id -> the hash of it that makes a name unique
  Configurations,  \* profiles [name, targets], the first one is the default
  ManualHosts,     \* hosts the user has declared, for the same inputs
  None

Lowered  == [A |-> "a", B |-> "b"]
Letters  == {"a", "b", "l", "s"} \union DOMAIN Lowered
Alnums   == Letters \union {"0"}
LowerOf(c)     == IF c \in DOMAIN Lowered THEN Lowered[c] ELSE c
LowerCase(name) == [i \in DOMAIN name |-> LowerOf(name[i])]

Within(name, chars) == ToSet(name) \subseteq chars
Edges(name)         == {name[1], name[Len(name)]}

(* The longest profile names are bounded by the lists that are checked. *)
IsValidProfileName(name) ==
  /\ name # <<>>
  /\ Edges(name) \subseteq Alnums
  /\ Within(name, (Alnums \ DOMAIN Lowered) \union {"-"})

IsOpensshSafeAlias(name) ==
  /\ name # <<>>
  /\ Edges(name) \subseteq Alnums
  /\ Within(name, Alnums \union {".", "_", "-"})

-----------------------------------------------------------------------------
(* The name of a target without letters or digits, "target" in the code *)
Anonymous == <<"s">>

AddCharacter(out, c) ==
  IF c \in Alnums THEN Append(out, LowerOf(c))
  ELSE IF out # <<>> /\ Last(out) # "-" THEN Append(out, "-")
  ELSE out

Normalized(name) ==
  LET out[i \in 0 .. Len(name)] ==
        IF i = 0 THEN <<>> ELSE AddCharacter(out[i - 1], name[i])
  IN  out[Len(name)]

(* At most one hyphen ends a normalized name. *)
Trimmed(name) == IF name # <<>> /\ Last(name) = "-" THEN Front(name) ELSE name

(* Mutant: the last hyphen stays. *)
TargetAliasBaseUntrimmed(name) ==
  IF IsOpensshSafeAlias(name) THEN name
  ELSE IF Normalized(name) = <<>> THEN Anonymous ELSE Normalized(name)

TargetAliasBase(name) ==
  IF IsOpensshSafeAlias(name) THEN name
  ELSE IF Normalized(name) = <<>> THEN Anonymous
  ELSE Trimmed(Normalized(name))

-----------------------------------------------------------------------------
(* allocate_aliases, for a sequence of targets [id, name] *)
Same(a, b) == LowerCase(a) = LowerCase(b)
BaseOf(targets, i) == TargetAliasBase(targets[i].name)

(* Mutant: names that differ in case only are not counted together. *)
SharedExactly(targets, i) ==
  \E j \in DOMAIN targets \ {i} : BaseOf(targets, i) = BaseOf(targets, j)

Shared(targets, i) ==
  \E j \in DOMAIN targets \ {i} : Same(BaseOf(targets, i), BaseOf(targets, j))

Resolved(targets, i) ==
  IF Shared(targets, i)
  THEN BaseOf(targets, i) \o <<"-">> \o Suffix[targets[i].id]
  ELSE BaseOf(targets, i)

AllocateAliases(profile, isDefault, targets) ==
  IF \/ ~IsValidProfileName(profile)
     \/ \E i, j \in DOMAIN targets : i # j /\ targets[i].id = targets[j].id
  THEN None
  ELSE [i \in DOMAIN targets |->
          [short |-> IF isDefault THEN Resolved(targets, i) ELSE None,
           qualified |-> Resolved(targets, i) \o <<".">> \o profile]]

(* render_profile: the patterns of the target's Host line; a short alias   *)
(* the user has declared by hand, in lower case, is left out.              *)
HostAliases(aliases, blocked) ==
  (IF aliases.short = None \/ LowerCase(aliases.short) \in blocked
   THEN {} ELSE {aliases.short}) \union {aliases.qualified}

-----------------------------------------------------------------------------
(* The Host lines of the managed configuration, one per target *)
HostLines(configuration, blocked) ==
  UNION {LET profile == configuration[p]
             aliases == AllocateAliases(profile.name, p = 1, profile.targets)
         IN {[profile |-> p, target |-> i, aliases |-> aliases[i],
              patterns |-> HostAliases(aliases[i], blocked)] :
               i \in DOMAIN profile.targets} :
         p \in DOMAIN configuration}

(* synchronize_all, unless the names of a profile are refused *)
RenderAliases ==
  work = Idle /\ \E c \in Configurations, blocked \in ManualHosts :
    /\ \A p \in DOMAIN c : AllocateAliases(c[p].name, p = 1, c[p].targets) # None
    /\ Evaluate("aliases", c, HostLines(c, blocked))

-----------------------------------------------------------------------------
(* What `shell aliases` prints of the snapshot with the same names *)
Offered(lines) ==
  {a \in UNION {{l.aliases.qualified, l.aliases.short} \ {None} : l \in lines} :
     ValidAlias(a, Alnums, {".", "_", "-"})}

ASSUME CharacterAssumption ==
  Alnums \union {".", "_", "-"} \subseteq Characters

(* Identifiers have hashes of one length, eight digits and letters in      *)
(* lower case; that two of them have the same hash is left out.            *)
ASSUME SuffixAssumption ==
  \A x, y \in DOMAIN Suffix :
    /\ Suffix[x] \in Seq(Alnums) \ {<<>>} /\ LowerCase(Suffix[x]) = Suffix[x]
    /\ Len(Suffix[x]) = Len(Suffix[y])
    /\ x # y => Suffix[x] # Suffix[y]
ASSUME ConfigurationAssumption ==
  \A c \in Configurations : \A p \in DOMAIN c :
    /\ c[p].name \in Seq(Characters)
    /\ c[p].targets \in Seq([id: DOMAIN Suffix, name: Seq(Characters)])
ASSUME NoneAssumption == None \notin Seq(Characters)

AliasSpec == work = Idle /\ [][RenderAliases]_work

(* Two targets of one profile never share an alias, in any letter case,    *)
(* unless the name of the one is what the hash makes of the other.         *)
AliasesDistinct ==
  work.task = "aliases" =>
    \A a, b \in work.output :
      a.profile = b.profile /\ a.target # b.target
        /\ Same(a.aliases.qualified, b.aliases.qualified)
      => LET targets == work.input[a.profile].targets IN
         \E i \in {a.target, b.target} :
           \E j \in {a.target, b.target} \ {i} :
             Same(BaseOf(targets, i),
                  BaseOf(targets, j) \o <<"-">> \o Suffix[targets[j].id])

-----------------------------------------------------------------------------
(* The runs of letters and digits of a name, in lower case, joined by      *)
(* hyphens: a run starts where the character before is none of them.       *)
Kept(name)   == {i \in DOMAIN name : name[i] \in Alnums}
Starts(name) == {i \in Kept(name) : i - 1 \notin Kept(name) /\ \E j \in Kept(name) : j < i}

PlaceOf(name, i) ==
  Cardinality({j \in Kept(name) : j < i}) + Cardinality({j \in Starts(name) : j <= i}) + 1

IsJoined(alias, name) ==
  /\ Len(alias) = Cardinality(Kept(name)) + Cardinality(Starts(name))
  /\ \A i \in Kept(name) : alias[PlaceOf(name, i)] = LowerOf(name[i])
  /\ \A i \in Starts(name) : alias[PlaceOf(name, i) - 1] = "-"

(* Every target can be connected to: its patterns are names for ssh, they  *)
(* are made of the name of the target, the qualified one is not a command  *)
(* or an option of the program and the shell gets it as a command.         *)
TargetsReachable ==
  work.task = "aliases" =>
    \A l \in work.output :
      LET name == work.input[l.profile].targets[l.target].name
          base == TargetAliasBase(name)
      IN /\ \A p \in l.patterns : IsOpensshSafeAlias(p)
         /\ l.aliases.qualified \in l.patterns \intersect Offered(work.output)
         /\ IF Kept(name) = {} THEN base = Anonymous
            ELSE base = name \/ IsJoined(base, name)
=============================================================================
