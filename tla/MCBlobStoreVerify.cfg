\* A goroutine runs VerifyAll while another stores chunks and the disk rots.
CONSTANTS
  p1 = p1
  p2 = p2
  t1 = t1
  t2 = t2
  t3 = t3
  Process = {p1}
  Thread = {t1, t2}
  ProcessOf <- OneProcess
  Hash = {h1, h2}
  Blocks = 2
  Client = {t1}
  Deleter = {}
  Walker = {t2}
  MaxRot = 1
  NoFile = NoFile
  NoThread = NoThread
SPECIFICATION FairSpec
 
PROPERTIES DamageIsReported
