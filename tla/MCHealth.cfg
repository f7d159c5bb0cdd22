SPECIFICATION Spec
CONSTANTS
  Services = {"kv", "query"}
  Criticals = {{"kv"}, {"kv", "kvv"}}
  Clusters = {"first", "second"}
  First = "first"
  Second = "second"
  Hosts <- MCHosts
  Runs <- MCRuns
PROPERTIES
  ViewsAgree LastingFaultIsDown DownHasCause DeltasAreNews
  GaugesExplainVerdict NeverLeavesForWorse
