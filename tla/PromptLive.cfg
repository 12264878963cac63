SPECIFICATION LiveSpec
CONSTANTS
  p1 = p1
  p2 = p2
  p3 = p3
  f1 = f1
  f2 = f2
  root = root
  alice = alice
  none = none
  tray = tray
  watch = watch
  Packets = {p1, p2}
  Flows = {f1}
  FlowOf <- OneFlow
  Uids = {root, alice}
  Root = root
  OwnerOf <- Owners
  NoUid = none
  Streams = {tray}
  UidOf <- ClientUids
  Answering = {tray}
  PolicyActions = {"Refuse"}
  Decisions = {"Ask", "RuleRefuse"}
  MaxParkedPrompts = 1
  MaxPacketsPerPrompt = 1
  PromptChannelCap = 1
  MaxRecvErrors = 1
PROPERTIES
  EveryPacketAnswered
