SPECIFICATION Spec
CONSTANTS
  Advertiser = Advertiser
  Other = Other
  pageA = pageA
  pageO = pageO
  a1 = a1
  o1 = o1
  Pages <- MCPages
  Viewer <- MCViewer
  Msgs <- MCMsgs
  Author <- MCAuthor
  NoMsg = NoMsg
  Threads = {r1}
  GraphLoaded = TRUE
  Faults = {}
PROPERTIES
  AddedToOld
