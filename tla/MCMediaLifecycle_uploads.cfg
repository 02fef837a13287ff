CONSTANTS
  pic = pic  att = att  me = me  req1 = req1  req2 = req2  job = job
  Pictures = {pic}
  Attachments = {att}
  Slots = {me}
  Handlers = {req1, req2}
  Jobs = {job}
  MaxFaults = 1
SPECIFICATION FairMediaSpec
CHECK_DEADLOCK FALSE
INVARIANTS ShownMediaExists
 
