SPECIFICATION MCSpec
CONSTANTS
  p1 = p1
  p2 = p2
  p3 = p3
  f1 = f1
  f2 = f2
  root = root
  alice = alice
  none = none
  tray = tray
  watch = watch
  Packets = {p1, p2, p3}
  Flows = {f1, f2}
  FlowOf <- TwoFlows
  Uids = {root, alice}
  Root = root
  OwnerOf <- Owners
  NoUid = none
  Streams = {tray}
  UidOf <- ClientUids
  Answering = {tray}
  PolicyActions = {"Allow", "Refuse"}
  Decisions = {"Ask", "AskUndecided", "RuleRefuse", "RuleAllow"}
  MaxParkedPrompts = 1
  MaxPacketsPerPrompt = 2
  PromptChannelCap = 1
  MaxRecvErrors = 1
INVARIANTS WaitersMatchFlows BacklogBounded NoPacketLost OneResolution
PROPERTY ImplementsAsk
SYMMETRY Sym
