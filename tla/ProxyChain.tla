------------------------------ MODULE ProxyChain ------------------------------
(***************************************************************************)
(* Chains of proxies: the page's switch (src/src/pages/proxies.tsx), the   *)
(* list of nodes that clicking, dragging and removing edit                 *)
(* (src/src/components/proxy/proxy-groups.tsx) and the button that saves   *)
(* it in the runtime configuration and chooses its exit                    *)
(* (src/src/components/proxy/proxy-chain.tsx).                             *)
(***************************************************************************)
EXTENDS Naturals, Sequences, SequencesExt

CONSTANTS Nodes, Groups,
          MaxChain,   \* bound on the nodes of a chain
          MaxCalls    \* bound on connects, disconnects and switches

VARIABLES chainMode,  \* proxy-chain-mode-enabled
          group,      \* activeSelectedGroup (GLOBAL in global mode)
          chain,      \* proxyChain, kept in localStorage as it is
          exit,       \* proxy-chain-exit-node and -group in localStorage
          runtime,    \* the chain of the runtime configuration
          now,        \* the core: group -> node
          call,       \* handleConnect: where it is and what it took along
          fetch,      \* getRuntimeProxyChainConfig is awaited
          edited,     \* the chain was edited, cleared or switched off since a
                      \* connect began
          calls

vars == <<chainMode, group, chain, exit, runtime, now, call, fetch, edited, calls>>

Nil == "none"
NoCall == [pc |-> "idle", chain |-> <<>>, group |-> Nil]

Init ==
  /\ chainMode \in BOOLEAN /\ group \in Groups
  /\ chain = <<>> /\ exit = Nil /\ runtime = <<>>
  /\ now \in [Groups -> Nodes]
  /\ call = NoCall /\ fetch = FALSE /\ edited = TRUE /\ calls = 0

(* The button's state, from the proxies as they are.                       *)
isConnected == Len(chain) >= 2 /\ now[group] = Last(chain)

-------------------------------------------------------------------------------
BugHandleChangeProxy(n) ==
  /\ chainMode /\ Len(chain) < MaxChain
  /\ chain' = Append(chain, n) /\ edited' = TRUE
  /\ UNCHANGED <<chainMode, group, exit, runtime, now, call, fetch, calls>>

(* A click on a node: added at the end unless it is there already.         *)
handleChangeProxy(n) ==
  /\ chainMode /\ Len(chain) < MaxChain
  /\ ~Contains(chain, n)
  /\ chain' = Append(chain, n) /\ edited' = TRUE
  /\ UNCHANGED <<chainMode, group, exit, runtime, now, call, fetch, calls>>

(* Outside of chain mode a click chooses the node of the group.            *)
handleProxyGroupChange(n) ==
  /\ ~chainMode /\ now[group] # n
  /\ now' = [now EXCEPT ![group] = n]
  /\ edited' = TRUE
  /\ UNCHANGED <<chainMode, group, chain, exit, runtime, call, fetch, calls>>

(* arrayMove.                                                              *)
handleDragEnd(i, j) ==
  /\ chainMode /\ i # j
  /\ chain' = InsertAt(RemoveAt(chain, i), j, chain[i]) /\ edited' = TRUE
  /\ UNCHANGED <<chainMode, group, exit, runtime, now, call, fetch, calls>>

handleRemoveProxy(i) ==
  /\ chainMode
  /\ chain' = RemoveAt(chain, i) /\ edited' = TRUE
  /\ UNCHANGED <<chainMode, group, exit, runtime, now, call, fetch, calls>>

(* The bin: the runtime chain is removed, which is not awaited.            *)
ClearChain ==
  /\ chainMode /\ chain # <<>>
  /\ runtime' = <<>> /\ chain' = <<>> /\ exit' = Nil /\ edited' = TRUE
  /\ UNCHANGED <<chainMode, group, now, call, fetch, calls>>

(* Another group in rule mode does the same.                               *)
handleGroupSelect(g) ==
  /\ chainMode /\ g # group
  /\ group' = g
  /\ runtime' = <<>> /\ chain' = <<>> /\ exit' = Nil /\ edited' = TRUE
  /\ UNCHANGED <<chainMode, now, call, fetch, calls>>

-------------------------------------------------------------------------------
(* handleConnect of the rendering it is clicked in.                        *)
handleConnect ==
  /\ chainMode /\ call.pc = "idle" /\ Len(chain) >= 2 /\ calls < MaxCalls
  /\ call' = [pc |-> IF isConnected THEN "clear" ELSE "save", chain |-> chain, group |-> group]
  /\ edited' = (edited /\ isConnected)
  /\ calls' = calls + 1
  /\ UNCHANGED <<chainMode, group, chain, exit, runtime, now, fetch>>

BugSave ==
  /\ call.pc = "save"
  /\ runtime' \in {call.chain, runtime} /\ call' = [call EXCEPT !.pc = "select"]
  /\ UNCHANGED <<chainMode, group, chain, exit, now, fetch, edited, calls>>

(* updateProxyChainConfigInRuntime(chain); a failure ends the connect.     *)
Save ==
  /\ call.pc = "save"
  /\ \/ runtime' = call.chain /\ call' = [call EXCEPT !.pc = "select"]
     \/ UNCHANGED runtime /\ call' = NoCall
  /\ UNCHANGED <<chainMode, group, chain, exit, now, fetch, edited, calls>>

(* selectNodeForGroup of the last node; then it is remembered.             *)
SelectExit ==
  /\ call.pc = "select"
  /\ call' = NoCall
  /\ \/ now' = [now EXCEPT ![call.group] = Last(call.chain)] /\ exit' = Last(call.chain)
     \/ UNCHANGED <<now, exit>>
  /\ UNCHANGED <<chainMode, group, chain, runtime, fetch, edited, calls>>

(* Disconnect: the runtime chain is removed, the group chooses DIRECT or,  *)
(* when it has none, the first node of the chain, and all is forgotten.    *)
ClearRuntime ==
  /\ call.pc = "clear"
  /\ \/ runtime' = <<>> /\ call' = [call EXCEPT !.pc = "unselect"]
     \/ UNCHANGED runtime /\ call' = NoCall
  /\ UNCHANGED <<chainMode, group, chain, exit, now, fetch, edited, calls>>

Unselect ==
  /\ call.pc = "unselect"
  /\ now' = [now EXCEPT ![call.group] = Head(call.chain)]
  /\ exit' = Nil
  /\ call' = [call EXCEPT !.pc = "close"]
  /\ UNCHANGED <<chainMode, group, chain, runtime, fetch, edited, calls>>

(* closeAllConnections and refreshProxy, then the list is emptied; a       *)
(* failure leaves it.                                                      *)
Forget ==
  /\ call.pc = "close"
  /\ call' = NoCall
  /\ \/ chain' = <<>>
     \/ UNCHANGED chain
  /\ UNCHANGED <<chainMode, group, exit, runtime, now, fetch, edited, calls>>

-------------------------------------------------------------------------------
(* The switch; off removes the runtime chain, on asks for it if an exit is *)
(* remembered (the answer is dropped after the switch went off again).     *)
onToggleChainMode ==
  /\ call.pc = "idle" /\ calls < MaxCalls /\ calls' = calls + 1
  /\ chainMode' = ~chainMode
  /\ fetch' = (chainMode' /\ exit # Nil)
  /\ \/ runtime' = IF chainMode THEN <<>> ELSE runtime
     \/ UNCHANGED runtime
  /\ edited' = TRUE
  /\ UNCHANGED <<group, chain, exit, now, call>>

fetchChainConfig ==
  /\ fetch /\ fetch' = FALSE
  /\ \/ chain' = IF runtime # <<>> THEN runtime ELSE chain
     \/ UNCHANGED chain
  /\ edited' = (edited \/ chain' # chain)
  /\ UNCHANGED <<chainMode, group, exit, runtime, now, call, calls>>

Next ==
  \/ \E n \in Nodes : handleChangeProxy(n) \/ handleProxyGroupChange(n)
  \/ \E i, j \in DOMAIN chain : handleDragEnd(i, j)
  \/ \E i \in DOMAIN chain : handleRemoveProxy(i)
  \/ \E g \in Groups : handleGroupSelect(g)
  \/ ClearChain \/ handleConnect \/ Save \/ SelectExit \/ ClearRuntime \/ Unselect \/ Forget
  \/ onToggleChainMode \/ fetchChainConfig

Spec == Init /\ [][Next]_vars

-------------------------------------------------------------------------------
(* No node is twice in a chain, through clicks, drags and what comes back  *)
(* from the runtime configuration.                                         *)
NoDuplicates == IsInjective(chain) /\ IsInjective(runtime)

(* When a connect is over and nothing was edited since it began, a button  *)
(* that says "disconnect" is right: the chain that is shown is in the      *)
(* runtime configuration.                                                  *)
ConnectedIsChained ==
  call.pc = "idle" /\ ~edited /\ isConnected /\ exit # Nil => runtime = chain
===============================================================================
