-------------------------------- MODULE Compile --------------------------------
(***************************************************************************)
(* From the manifest an author writes to the world the kernel decides by   *)
(* (compiler: loader.rs, compile.rs).  A manifest that does not validate   *)
(* has no world.                                                           *)
(*                                                                         *)
(* A manifest is a record of its sections.  Lists whose order decides      *)
(* nothing and whose repetition is an error of its own are sets here: the  *)
(* inherited arguments of a contract, the sources of a path class.         *)
(***************************************************************************)
EXTENDS Gate

names(list) == {list[i].name : i \in DOMAIN list}
unique(list, key(_)) == \A i, j \in DOMAIN list : key(list[i]) = key(list[j]) => i = j
named(list, name) == list[CHOOSE i \in DOMAIN list : list[i].name = name]

-----------------------------------------------------------------------------
(* Validation.                                                             *)

\* A contract names declared arguments only, says something, and does not
\* vouch for the output of another process.
validate_flow_contract(action) ==
  \A contract \in action.flow_contract :
    LET declared == DOMAIN properties(action.schema)
    IN  /\ ~contract_is_empty(contract)
        /\ contract.inherits \subseteq declared
        /\ \A i \in DOMAIN contract.sinks :
             /\ contract.sinks[i].arg \in declared
             /\ ~sink_is_empty(contract.sinks[i])
        /\ \A b \in action.backing, l \in contract.output :
             b.kind = "mcp" => "Untrusted" \in l

\* The actor's names are unique and not blank, and an input rule admits something.
validate_scoped_args(cap, base) ==
  LET declared_type(arg) ==
        IF arg \in DOMAIN properties(base.schema)
        THEN LET s == properties(base.schema)[arg]
             IN  IF "type" \in DOMAIN s THEN s.type ELSE {"string"}
        ELSE {"string"}
  IN  /\ \A a \in DOMAIN cap.args : "" \notin actor_name(cap.args[a], a)
      /\ \A a, b \in DOMAIN cap.args :
           a # b => actor_name(cap.args[a], a) \cap actor_name(cap.args[b], b) = {}
      /\ \A a \in DOMAIN cap.args :
           cap.args[a].from = "input" =>
             \A p \in cap.args[a].prefix :
               /\ p # <<>>
               /\ declared_type(a) = {"string"}
               /\ \A v \in cap.args[a].one_of : is(v, "str") /\ IsPrefix(p, v.str)

validate_surface(m) ==
  \A s \in m.mcp_surface :
    /\ s.name # ""
    /\ \E i \in DOMAIN m.base_actions : \E b \in m.base_actions[i].backing :
         b.kind = "mcp" /\ b.server = s.upstream

\* One classifier for an action, and every one has a class to fall back to.
validate_command_classes(m) ==
  LET bases == names(m.base_actions)
      ActionOf(def) == def.action
  IN  /\ unique(m.command_classes, ActionOf)
      /\ \A i \in DOMAIN m.command_classes :
           LET def == m.command_classes[i]
           IN  /\ def.action \in bases
               /\ def.default_to # {} /\ def.default_to \subseteq bases
               /\ \A c \in def.classes : c.to \in bases /\ <<>> \notin c.patterns

validate_path_classes(m) ==
  LET bases == names(m.base_actions)
      sources(i) == {s.action : s \in m.path_classes[i].from}
      commands == {m.command_classes[i].action : i \in DOMAIN m.command_classes}
  IN  \A i \in DOMAIN m.path_classes :
        LET class == m.path_classes[i]
        IN  /\ {class.to} \cup sources(i) \subseteq bases
            /\ class.from # {} /\ class.patterns # {} /\ <<>> \notin class.patterns
            /\ \A s \in class.from : s.arg # ""
            /\ sources(i) \cap commands = {}
            /\ \A j \in DOMAIN m.path_classes : j < i => sources(i) \cap sources(j) = {}

validate_channels(m) ==
  LET ChannelOf(def) == from_name[def.name]
  IN  /\ names(m.channels) \subseteq DOMAIN from_name
      /\ unique(m.channels, ChannelOf)

validate_manifest(m) ==
  LET NameOf(def) == def.name
      bases == names(m.base_actions)
  IN  /\ validate_channels(m)
      /\ unique(m.base_actions, NameOf) /\ unique(m.scoped_capabilities, NameOf)
      /\ \A i \in DOMAIN m.base_actions :
           /\ check_action_schema(m.base_actions[i].schema, m.base_actions[i].arg_constraints)
           /\ validate_flow_contract(m.base_actions[i])
      /\ \A i \in DOMAIN m.scoped_capabilities :
           LET cap == m.scoped_capabilities[i]
           IN  /\ cap.name \notin bases /\ cap.base_action \in bases
               /\ validate_scoped_args(cap, named(m.base_actions, cap.base_action))
      /\ validate_surface(m) /\ validate_command_classes(m) /\ validate_path_classes(m)

-----------------------------------------------------------------------------
(* Compilation.                                                            *)

default_trust ==
  [UserPrompt |-> "Trusted", WorkspaceFile |-> "SemiTrusted", ShellOutput |-> "SemiTrusted",
   McpOutput |-> "Untrusted", Web |-> "Untrusted", Memory |-> "Derived", Generated |-> "Derived"]

default_taint ==
  [c \in DOMAIN default_trust |-> IF c = "UserPrompt" THEN "Clean" ELSE "Tainted"]

compile_channel_policies(channels) ==
  IF channels = <<>>
  THEN [c \in DOMAIN default_trust |-> [trust |-> default_trust[c], taint |-> default_taint[c]]]
  ELSE [c \in {from_name[n] : n \in names(channels)} |->
          LET def == channels[CHOOSE i \in DOMAIN channels : from_name[channels[i].name] = c]
          IN  [trust |-> def.trust, taint |-> IF def.taint THEN "Tainted" ELSE "Clean"]]

\* The backing of an action that declares none is the handler of its name.
backing_of(action) ==
  IF action.backing = {} THEN [kind |-> "local", handler |-> action.name]
  ELSE CHOOSE b \in action.backing : TRUE

descriptor_of(base) ==
  [schema |-> base.schema, arg_constraints |-> base.arg_constraints,
   backing |-> backing_of(base), arg_roles |-> base.arg_roles,
   flow_contract |-> base.flow_contract]

\* The base action that a name stands for.
base_of(m, a) ==
  named(m.base_actions,
        IF a \in names(m.base_actions) THEN a ELSE named(m.scoped_capabilities, a).base_action)

\* Variant: a capability is a way around the approval of its base.
approval_required_BaseOnly(m) ==
  {a \in names(m.base_actions) : base_of(m, a).approval_required}

approval_required(m) ==
  {a \in names(m.base_actions) \cup names(m.scoped_capabilities) : base_of(m, a).approval_required}

\* A capability has the type, the effect, the backing, the approval, the roles
\* and the contract of its base; only base actions can be kept off the surface.  The
\* names the code makes for unnamed rules, by their position, are one here.
compile(m) ==
  LET bases == names(m.base_actions)
      caps == names(m.scoped_capabilities)
      base(a) == base_of(m, a)
      trusts == {m.capabilities[i].trust : i \in DOMAIN m.capabilities}
  IN  [ontology |-> bases \cup caps,
       projected |-> {a \in bases : base(a).projected} \cup caps,
       descriptors |-> [a \in bases \cup caps |-> descriptor_of(base(a))],
       action_types |-> [a \in bases \cup caps |-> base(a).action_type],
       side_effects |-> [a \in bases \cup caps |-> base(a).side_effect],
       approval_required |-> approval_required(m),
       scoped_capabilities |-> [a \in caps |-> named(m.scoped_capabilities, a)],
       channel_policies |-> compile_channel_policies(m.channels),
       capability_matrix |->
         [t \in trusts |-> UNION {m.capabilities[i].actions :
                                    i \in {j \in DOMAIN m.capabilities : m.capabilities[j].trust = t}}],
       taint_rules |-> [i \in DOMAIN m.transition_policies |->
                          [m.transition_policies[i] EXCEPT
                             !.rule = IF @ = "" THEN "transition" ELSE @]],
       command_classes |-> m.command_classes, path_classes |-> m.path_classes,
       roots |-> m.roots, mcp_surface |-> m.mcp_surface,
       budget |-> m.budget, effect_rules |-> <<>>]

-----------------------------------------------------------------------------
(* Root paths, made absolute by the host before it compiles.               *)

\* Without the slashes at its end.
trimmed(path) == SelectInSeq(Reverse(path), LAMBDA s : s # "")
trim(path) == SubSeq(path, 1, IF trimmed(path) = 0 THEN 1 ELSE Len(path) - trimmed(path) + 1)

expand_root_path(p, home, base) ==
  LET rel == IF Len(p) > 1 /\ Head(p) = "." THEN Tail(p) ELSE p
      under == CHOOSE q \in home \cup base \cup {p} :
                 q \in IF Head(p) = "~" THEN IF home = {} THEN {p} ELSE home
                       ELSE IF base = {} THEN {p} ELSE base
  IN  IF Head(p) = "" \/ under = p THEN trim(p)
      ELSE IF Head(p) = "~" THEN trim(trim(under) \o Tail(p))
      ELSE IF rel = <<".">> THEN trim(under)
      ELSE trim(trim(under) \o rel)

resolve_root_paths(roots, home, base) ==
  LET rules == roots.rules
  IN  [roots EXCEPT !.rules =
         [i \in DOMAIN rules |->
            [rules[i] EXCEPT !.path = expand_root_path(rules[i].path, home, base)]]]
=============================================================================
