---------------------------- MODULE ModelRouting ----------------------------
(***************************************************************************)
(* gateway/app/proxy/model_aliases.py: which backend models a chat request *)
(* is tried on, and in which order.  The two JSON settings are functions:  *)
(* routes from aliases to sequences of targets [model, weight], where a    *)
(* string is a target of weight 1, and aliases from names to models.  ""   *)
(* is whatever is not a name; a value that is not a weight or a list is    *)
(* the weight 0 or the empty sequence, which are refused in the same way.  *)
(* SHA-256 is abstracted to the slot it selects: any number below the      *)
(* total weight, the same for one key.                                     *)
(***************************************************************************)
EXTENDS Integers, Sequences, SequencesExt

IsTarget(t) == t.model # "" /\ t.weight > 0

IsRoute(targets) ==
  Len(targets) > 0 /\ \A i \in DOMAIN targets : IsTarget(targets[i])

\* load_model_routes and load_model_aliases raise ValueError otherwise.
RoutesParse(routes) == \A a \in DOMAIN routes : a # "" /\ IsRoute(routes[a])
AliasesParse(aliases) == \A a \in DOMAIN aliases : a # "" /\ aliases[a] # ""

\* Without any alias the default model is one.
LoadModelAliases(aliases, default) ==
  IF DOMAIN aliases = {} THEN [m \in {default} |-> default] ELSE aliases

\* The weights of the first n targets together.
RunningWeight(targets, n) ==
  FoldLeft(LAMBDA sum, t : sum + t.weight, 0, SubSeq(targets, 1, n))

TotalWeight(targets) == RunningWeight(targets, Len(targets))

\* The slots stable_hash_int(key) % total_weight can be.
Slots(targets) == 0 .. TotalWeight(targets) - 1

\* Mutant: the slot may equal the running weight.
WeightedTargetIndexInclusive(targets, slot) ==
  Min({i \in DOMAIN targets : slot <= RunningWeight(targets, i)} \cup {Len(targets)})

\* The first target whose running weight exceeds the slot; the loop's
\* fallback is the last target.
WeightedTargetIndex(targets, slot) ==
  LET over == {i \in DOMAIN targets : slot < RunningWeight(targets, i)}
  IN IF over = {} THEN Len(targets) ELSE Min(over)

\* Mutant: the fallbacks are the targets with another model name.
SelectModelRouteByName(targets, slot) ==
  LET chosen == WeightedTargetIndex(targets, slot)
      others == SelectSeq(targets, LAMBDA t : t.model # targets[chosen].model)
  IN <<targets[chosen].model>> \o [j \in 1 .. Len(others) |-> others[j].model]

\* The selected target, then every other one in the order of the route.
SelectModelRoute(targets, slot) ==
  LET chosen == WeightedTargetIndex(targets, slot)
      others == FoldLeft(LAMBDA kept, i : IF i = chosen THEN kept ELSE Append(kept, i),
                         << >>, [i \in 1 .. Len(targets) |-> i])
  IN [j \in 1 .. Len(targets) |-> targets[(<<chosen>> \o others)[j]].model]

Selected(models) == [models |-> models, error |-> "none"]
Raised(error) == [models |-> << >>, error |-> error]

\* Mutant: the default model is not an alias.
ResolveWithoutDefault(model, routes, aliases, default, slot) ==
  CASE ~RoutesParse(routes) -> Raised("ValueError")
    [] RoutesParse(routes) /\ model \in DOMAIN routes ->
         Selected(SelectModelRoute(routes[model], slot))
    [] OTHER ->
         IF ~AliasesParse(aliases) THEN Raised("ValueError")
         ELSE IF model \in DOMAIN aliases THEN Selected(<<aliases[model]>>)
         ELSE Raised("ModelAliasError")

\* A route of that name wins over an alias of that name, and its request does
\* not read the aliases; an alias has no fallbacks.
ResolveModelRoute(model, routes, aliases, default, slot) ==
  LET all == LoadModelAliases(aliases, default)
  IN IF ~RoutesParse(routes) THEN Raised("ValueError")
     ELSE IF model \in DOMAIN routes THEN Selected(SelectModelRoute(routes[model], slot))
     ELSE IF ~AliasesParse(aliases) THEN Raised("ValueError")
     ELSE IF model \in DOMAIN all THEN Selected(<<all[model]>>)
     ELSE Raised("ModelAliasError")

\* list_gateway_models; the models it lists are sorted by the code.
ListGatewayModels(routes, aliases, default) ==
  IF AliasesParse(aliases) /\ RoutesParse(routes)
  THEN [models |-> DOMAIN routes \cup DOMAIN LoadModelAliases(aliases, default),
        error |-> "none"]
  ELSE [models |-> {}, error |-> "ValueError"]

-----------------------------------------------------------------------------
(* Properties, of one configuration                                        *)

\* Every target is selected by exactly as many slots as its weight says, so
\* the loop's fallback to the last target adds nothing to it.
WeightsExact(targets) ==
  \A i \in DOMAIN targets :
    Cardinality({s \in Slots(targets) : WeightedTargetIndex(targets, s) = i})
      = targets[i].weight

\* The attempts of a request are the targets of the route, each once, with the
\* selected one in front and the others in the order of the configuration.
AttemptsAreTargets(targets, slot) ==
  LET models == [i \in DOMAIN targets |-> targets[i].model]
      plan == SelectModelRoute(targets, slot)
      chosen == WeightedTargetIndex(targets, slot)
  IN /\ Head(plan) = models[chosen]
     /\ Tail(plan) = SubSeq(models, 1, chosen - 1)
                     \o SubSeq(models, chosen + 1, Len(models))

\* /v1/models and chat agree: every model id that is listed can be asked for,
\* and no other, on models whose names are not empty.  When the listing fails
\* because a setting does not parse, chat answers for configured routes at most.
ListedIffResolvable(model, routes, aliases, default, slot) ==
  LET listed   == ListGatewayModels(routes, aliases, default)
      resolved == ResolveModelRoute(model, routes, aliases, default, slot)
  IN /\ listed.error = "none" =>
          /\ model \in listed.models <=> resolved.error = "none"
          /\ resolved.error # "ValueError" /\ "" \notin ToSet(resolved.models)
     /\ listed.error # "none" /\ resolved.error = "none" => model \in DOMAIN routes

=============================================================================
