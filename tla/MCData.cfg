SPECIFICATION Spec
CONSTANTS
 Nil = Nil
 Unasked = Unasked
 Wild = {":a", ":b"}
 Indented <- Flows
 Domain <- Domains
 Pattern <- Patterns
 Path <- Paths
 Route <- Routes
 Ret <- Replies
 Compared <- Replied
 None = None
 Callable = {"f"}
 Number <- Numbers
 NumberOf <- NumbersOf
 Half <- HalfValue
 Dec = 3
 Hex = 4
 Line <- LineSet
 Flow = {"flow", "wide", "late", "deep"}
 Lib = {"lib"}
 Kids <- Below
 Kind <- Kinds
 Target <- Targets
 Rewritten <- Rewrites
 MaxCounter = 8
 Node <- Tree3
 Root = "0"
 Parent <- Parents
 Name <- Names
 Val = {"u", "x"}
 Layers <- OrgLayers
 MaxSet = 2
 Given <- GivenVars
 Cell = {1, 2, 3}
 Entry = {1, 2}
 Start <- Places
 Count = {0, 1, 2}
INVARIANTS
 
 LinesNested
 Matched
 ReadBack
 TreesFound
 
 ValuesFound
 Extrapolated
PROPERTIES
 SeenBelow
 NidsApart
 EntriesKept
CHECK_DEADLOCK FALSE
