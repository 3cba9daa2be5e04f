---------------------------- MODULE MCMockPeers -----------------------------
EXTENDS MockPeers

\* A command without parameters, KvCompress with a keep_ratio, and one with --every or --on.
Entry(name, delay) == [name |-> name, given |-> {}, keep_ratio |-> 0, delay |-> delay]
Keep(ratio, delay) == [name |-> "KvCompress", given |-> {"keep_ratio"}, keep_ratio |-> ratio, delay |-> delay]
With(name, arg) == [name |-> name, given |-> {arg}, keep_ratio |-> 0, delay |-> FALSE]

MCScripts ==
    {[mode |-> "scenario", entries |-> <<Keep(50, FALSE), Entry("Suspend", FALSE), Keep(94, FALSE)>>],
     [mode |-> "scenario", entries |-> <<Keep(50, TRUE), Entry("RestoreDefaults", TRUE), Keep(0, FALSE)>>],
     [mode |-> "scenario", entries |-> <<Entry("Resume", FALSE), With("GpuYield", "every")>>],
     [mode |-> "scenario", entries |-> <<Keep(150, FALSE), Entry("KvCompress", FALSE)>>],
     [mode |-> "single", entries |-> <<With("GpuYield", "every")>>],
     [mode |-> "single", entries |-> <<Entry("GpuOffload", FALSE)>>],
     [mode |-> "none", entries |-> <<>>]}

=============================================================================
